---- MODULE Spec2Model ----
(***************************************************************************)
(* Model of src/app.py: the ETH websocket bot, the BTC REST bot, the two   *)
(* detectors (adjacent-strike arbitrage, user strike/premium alerts), the  *)
(* cooldown gate and the expiry lifecycle (daily cutover and delisting).   *)
(*                                                                         *)
(* Conventions.                                                            *)
(*  - A symbol "C-ETH-3000-010125" is the record                           *)
(*    [side |-> "C", asset |-> "ETH", strike |-> 3000, expiry |-> 10125].  *)
(*    The string tests of the code are modelled by what they do on that    *)
(*    shape (see InSymbol_C, InSymbol_P, InSymbol_asset, extract_strike).  *)
(*  - An expiry code "DDMMYY" is the integer DDMMYY: the code compares     *)
(*    the six-character strings, and on fixed-width digit strings the      *)
(*    string order is the order of these integers.                         *)
(*  - Prices and thresholds are integers in hundredths (0.16 is 16).       *)
(*  - Timestamps are integer seconds.                                      *)
(***************************************************************************)
EXTENDS Integers, Naturals, Sequences, FiniteSets, TLC

VARIABLES
    now,                \* datetime.now().timestamp(), in seconds
    listing,            \* the exchange's live expiries (instrument directory)
    eth,                \* the fields of eth_bot (ETHWebSocketBot)
    btc,                \* the fields of btc_bot (BTCRESTBot)
    alert_configs,      \* the global alert_configs: config id -> AlertConfig
    new_system_active,  \* the global new_system_active
    DELTA_THRESHOLD,    \* the global DELTA_THRESHOLD: asset -> threshold
    sink,               \* what send_telegram was handed: message -> count
    last_op,            \* the handler that ran last, and what it was given
    twin,               \* a second run of the program (two-run studies)
    threads,            \* the threads running BTC start_monitoring
    inp,                \* input of the function under study (function specs)
    out                 \* its result

vars == <<now, listing, eth, btc, alert_configs, new_system_active,
          DELTA_THRESHOLD, sink, last_op, twin, threads, inp, out>>

progVars == <<now, listing, eth, btc, alert_configs, new_system_active,
              DELTA_THRESHOLD, sink, last_op, twin, threads>>

(***************************************************************************)
(* Program constants                                                       *)
(***************************************************************************)
ALERT_COOLDOWN == 60

PROCESS_INTERVAL == 2

EXPIRY_CHECK_INTERVAL == 60

\* sleep(10) before on_close reconnects
RECONNECT_DELAY == 10

MIN_SYMBOLS == 10

CUTOVER_HOUR == 17

CUTOVER_MINUTE == 30

DELTA_THRESHOLD_ETH == 16

DELTA_THRESHOLD_BTC == 200

(***************************************************************************)
(* Bounds of the model                                                     *)
(***************************************************************************)
\* prices of the detector study range over 0..MaxPrice
MaxPrice == 2

\* thresholds of the detector study range over 1..MaxThreshold
MaxThreshold == 2

Assets == {"ETH", "BTC"}

Sides == {"C", "P"}

\* strikes of the detector study
ArbStrikes == {100, 105, 110}

None == "none"

(***************************************************************************)
(* Symbols                                                                 *)
(***************************************************************************)
Sym(side, asset, strike, expiry) ==
    [side |-> side, asset |-> asset, strike |-> strike, expiry |-> expiry]

\* 'C-' in symbol: the side letter is C, or the asset name ends in C ("BTC-")
InSymbol_C(symbol) == symbol.side = "C" \/ symbol.asset = "BTC"

\* 'P-' in symbol: the side letter is P (no asset name ends in P)
InSymbol_P(symbol) == symbol.side = "P"

\* 'ETH' in symbol, 'BTC' in symbol: only the asset part holds letters
InSymbol_asset(asset, symbol) == symbol.asset = asset

\* parts[0].startswith('C') / startswith('P')
option_type(symbol) ==
    IF symbol.side = "C" THEN "call" ELSE IF symbol.side = "P" THEN "put" ELSE "unknown"

\* parts[3] of a four-part symbol
extract_expiry_from_symbol(symbol) == symbol.expiry

\* the first part that is all digits and longer than two characters: the
\* strike when it has three digits or more, else the six-digit expiry
extract_strike(symbol) ==
    IF symbol.strike >= 100 THEN symbol.strike ELSE symbol.expiry

(***************************************************************************)
(* Arbitrage detectors                                                     *)
(***************************************************************************)
\* a mutant of CallQualifies: strict comparison with the threshold
CallQualifies_strict(call1_ask, call2_bid, threshold) ==
    /\ call1_ask > 0 /\ call2_bid > 0
    /\ call1_ask - call2_bid < 0
    /\ call2_bid - call1_ask > threshold

\* call_diff = call1_ask - call2_bid; call_diff < 0 and abs(call_diff) >= threshold
CallQualifies(call1_ask, call2_bid, threshold) ==
    /\ call1_ask > 0 /\ call2_bid > 0
    /\ call1_ask - call2_bid < 0
    /\ (IF call1_ask - call2_bid < 0 THEN call2_bid - call1_ask
                                     ELSE call1_ask - call2_bid) >= threshold

\* a mutant of PutQuotesOf: the put legs taken from the wrong strikes
PutQuotesOf_swapped(strikes, strike1, strike2) ==
    [bid |-> strikes[strike2]["put"].bid, ask |-> strikes[strike1]["put"].ask]

\* put1_bid = strikes[strike1]['put'] bid, put2_ask = strikes[strike2]['put'] ask
PutQuotesOf(strikes, strike1, strike2) ==
    [bid |-> strikes[strike1]["put"].bid, ask |-> strikes[strike2]["put"].ask]

\* put_diff = put2_ask - put1_bid; put_diff < 0 and abs(put_diff) >= threshold
PutQualifies(put1_bid, put2_ask, threshold) ==
    /\ put1_bid > 0 /\ put2_ask > 0
    /\ put2_ask - put1_bid < 0
    /\ (IF put2_ask - put1_bid < 0 THEN put1_bid - put2_ask
                                   ELSE put2_ask - put1_bid) >= threshold

\* range(len(sorted_strikes) - 1) over sorted(keys): the adjacent pairs
AdjacentPairs(keys) ==
    {p \in keys \X keys :
        /\ p[1] < p[2]
        /\ ~ \E k \in keys : p[1] < k /\ k < p[2]}

\* a slot that no option filled reads as 0 (.get('ask', 0) on {} for ETH, the
\* {'bid': 0, 'ask': 0} default for BTC)
NoQuote == [bid |-> 0, ask |-> 0]

\* The loop over adjacent strikes: the <<side, strike1, strike2>> whose
\* condition holds, each of which is handed to can_alert under its alert key.
\* strikes maps each strike to [call |-> quote, put |-> quote].
ArbitrageHits(strikes, threshold) ==
    LET pairs == AdjacentPairs(DOMAIN strikes)
    IN  {<<"CALL", q[1], q[2]>> : q \in
            {p \in pairs : CallQualifies(strikes[p[1]]["call"].ask,
                                         strikes[p[2]]["call"].bid, threshold)}}
        \cup
        {<<"PUT", q[1], q[2]>> : q \in
            {p \in pairs : LET pq == PutQuotesOf(strikes, p[1], p[2])
                           IN  PutQualifies(pq.bid, pq.ask, threshold)}}

\* The strikes dict of check_arbitrage_same_expiry.  options is a function
\* symbol -> quote; win[<<strike, slot>>] is the symbol whose entry the dict
\* keeps for that slot (the last one in iteration order when several symbols
\* share a strike and a side letter).
ETH_strikes(options, win) ==
    LET ks == {extract_strike(s) : s \in {t \in DOMAIN options : extract_strike(t) > 0}}
        slot(k, name) ==
            IF <<k, name>> \in DOMAIN win
            THEN [bid |-> options[win[<<k, name>>]].bid,
                  ask |-> options[win[<<k, name>>]].ask]
            ELSE NoQuote
    IN  [k \in ks |-> [call |-> slot(k, "call"), put |-> slot(k, "put")]]

\* 'C-' in symbol fills the call slot, elif 'P-' in symbol the put slot
ETH_slot_of(symbol) ==
    IF InSymbol_C(symbol) THEN "call" ELSE IF InSymbol_P(symbol) THEN "put" ELSE None

\* win for one iteration order of options: when several symbols share a
\* strike and a side letter (they differ in expiry), order "old_last" keeps
\* the one of the smallest expiry code and "new_last" the one of the largest
ETH_winner(options, order) ==
    LET syms == {s \in DOMAIN options : extract_strike(s) > 0 /\ ETH_slot_of(s) # None}
        slots == {<<extract_strike(s), ETH_slot_of(s)>> : s \in syms}
        cands(sl) == {s \in syms : extract_strike(s) = sl[1] /\ ETH_slot_of(s) = sl[2]}
        pick(sl) == IF order = "old_last"
                    THEN CHOOSE s \in cands(sl) : \A o \in cands(sl) : s.expiry <= o.expiry
                    ELSE CHOOSE s \in cands(sl) : \A o \in cands(sl) : s.expiry >= o.expiry
    IN  [sl \in slots |-> pick(sl)]

DictOrders == {"old_last", "new_last"}

\* f"ETH_CALL_{strike1}_{strike2}_{self.active_expiry}" and its put twin
ETH_arbitrage_key(hit, active_expiry) ==
    <<(IF hit[1] = "CALL" THEN "ETH_CALL" ELSE "ETH_PUT"), hit[2], hit[3], active_expiry>>

\* check_arbitrage_same_expiry: the alert keys handed to can_alert
check_arbitrage_same_expiry(options, win, threshold, active_expiry) ==
    LET strikes == ETH_strikes(options, win)
    IN  IF Cardinality(DOMAIN strikes) < 2 THEN {}
        ELSE {ETH_arbitrage_key(h, active_expiry) : h \in ArbitrageHits(strikes, threshold)}

\* group_by_strike: tickers is a function symbol -> quote
group_by_strike(tickers) ==
    LET ok == {s \in DOMAIN tickers : extract_strike(s) # 0 /\ option_type(s) # "unknown"}
        ks == {extract_strike(s) : s \in ok}
        slot(k, name) ==
            IF \E s \in ok : extract_strike(s) = k /\ option_type(s) = name
            THEN LET s == CHOOSE t \in ok : extract_strike(t) = k /\ option_type(t) = name
                 IN  [bid |-> tickers[s].bid, ask |-> tickers[s].ask]
            ELSE NoQuote
    IN  [k \in ks |-> [call |-> slot(k, "call"), put |-> slot(k, "put")]]

\* f"BTC_CALL_{strike1}_{strike2}" and its put twin
BTC_arbitrage_key(hit) ==
    <<(IF hit[1] = "CALL" THEN "BTC_CALL" ELSE "BTC_PUT"), hit[2], hit[3]>>

\* check_arbitrage: the alert keys handed to can_alert
check_arbitrage(grouped_data, threshold) ==
    IF DOMAIN grouped_data = {} THEN {}
    ELSE {BTC_arbitrage_key(h) : h \in ArbitrageHits(grouped_data, threshold)}

(***************************************************************************)
(* Cooldown gate and notification sink                                     *)
(***************************************************************************)
\* a message handed to send_telegram at time t; key tells what it is about
Msg(kind, asset, key, t) == [kind |-> kind, asset |-> asset, key |-> key, at |-> t]

\* send_telegram(message): sink counts how often each message was handed over
send_telegram(snk, msg) ==
    IF msg \in DOMAIN snk THEN [snk EXCEPT ![msg] = @ + 1] ELSE snk @@ (msg :> 1)

\* a mutant of can_alert: a suppressed detection restarts the window
can_alert_restart(last_alert_time, alert_key, t) ==
    LET last_time == IF alert_key \in DOMAIN last_alert_time
                     THEN last_alert_time[alert_key] ELSE 0
    IN  [ok |-> t - last_time >= ALERT_COOLDOWN,
         last_alert_time |->
            [k \in DOMAIN last_alert_time \cup {alert_key} |->
                IF k = alert_key THEN t ELSE last_alert_time[k]]]

\* can_alert(alert_key) at time t: the answer and the map it leaves
can_alert(last_alert_time, alert_key, t) ==
    LET last_time == IF alert_key \in DOMAIN last_alert_time
                     THEN last_alert_time[alert_key] ELSE 0
    IN  IF t - last_time >= ALERT_COOLDOWN
        THEN [ok |-> TRUE,
              last_alert_time |->
                 [k \in DOMAIN last_alert_time \cup {alert_key} |->
                     IF k = alert_key THEN t ELSE last_alert_time[k]]]
        ELSE [ok |-> FALSE, last_alert_time |-> last_alert_time]

RECURSIVE GateAll(_, _, _)
\* "if self.can_alert(alert_key): alerts.append(...)" over the keys a detector
\* found in one pass: the keys let through and the map left behind
GateAll(last_alert_time, keys, t) ==
    IF keys = {} THEN [permitted |-> {}, last_alert_time |-> last_alert_time]
    ELSE LET k == CHOOSE x \in keys : TRUE
             r == can_alert(last_alert_time, k, t)
             rest == GateAll(r.last_alert_time, keys \ {k}, t)
         IN  [permitted |-> (IF r.ok THEN {k} ELSE {}) \cup rest.permitted,
              last_alert_time |-> rest.last_alert_time]

RECURSIVE SendAll(_, _, _, _, _)
\* "for alert in alerts: send_telegram(alert)"
SendAll(snk, kind, asset, keys, t) ==
    IF keys = {} THEN snk
    ELSE LET k == CHOOSE x \in keys : TRUE
         IN  SendAll(send_telegram(snk, Msg(kind, asset, k, t)), kind, asset, keys \ {k}, t)

(***************************************************************************)
(* Threshold (user alert) detector                                         *)
(***************************************************************************)
\* f"ETH_CALL_ALERT_{strike}_{config.strike}" and its three twins
user_alert_key(asset, side, strike, config_strike) ==
    <<(IF asset = "ETH"
       THEN (IF side = "call" THEN "ETH_CALL_ALERT" ELSE "ETH_PUT_ALERT")
       ELSE (IF side = "call" THEN "BTC_CALL_ALERT" ELSE "BTC_PUT_ALERT")),
      strike, config_strike>>

\* a mutant of UserAlertStrikes: the scan stops at the first matching strike
UserAlertStrikes_first(side, config, chain_side, options_prices) ==
    LET all == {strike \in DOMAIN chain_side :
                   /\ (IF side = "call" THEN strike > config.strike
                                        ELSE strike < config.strike)
                   /\ chain_side[strike] \in DOMAIN options_prices
                   /\ options_prices[chain_side[strike]].bid >= config.premium}
    IN  {strike \in all : \A o \in all : strike <= o}

\* the loop over option_chain_data[side].items(): the strikes on the far side
\* of config.strike whose snapshot entry exists and bids at least the premium
UserAlertStrikes(side, config, chain_side, options_prices) ==
    {strike \in DOMAIN chain_side :
        /\ (IF side = "call" THEN strike > config.strike ELSE strike < config.strike)
        /\ chain_side[strike] \in DOMAIN options_prices
        /\ options_prices[chain_side[strike]].bid >= config.premium}

\* one half of check_user_alerts: the alert keys handed to can_alert for the
\* rule of one side
UserAlertKeys(asset, side, config, chain_side, options_prices) ==
    IF config.is_monitoring /\ config.strike > 0 /\ config.premium > 0
    THEN {user_alert_key(asset, side, strike, config.strike) :
             strike \in UserAlertStrikes(side, config, chain_side, options_prices)}
    ELSE {}

\* the keys of alert_configs
ConfigIds == {"btc_call", "btc_put", "eth_call", "eth_put"}

ConfigId(asset, side) ==
    IF asset = "ETH" THEN (IF side = "call" THEN "eth_call" ELSE "eth_put")
    ELSE (IF side = "call" THEN "btc_call" ELSE "btc_put")

\* check_user_alerts of the bot of asset: the alert keys handed to can_alert
check_user_alerts(asset, active, configs, option_chain_data, options_prices) ==
    IF ~active THEN {}
    ELSE UserAlertKeys(asset, "call", configs[ConfigId(asset, "call")],
                       option_chain_data.calls, options_prices)
         \cup
         UserAlertKeys(asset, "put", configs[ConfigId(asset, "put")],
                       option_chain_data.puts, options_prices)

(***************************************************************************)
(* Option chains                                                           *)
(***************************************************************************)
\* what the products endpoint lists for the live expiries dir
Products(dir, strikes) ==
    {[symbol |-> Sym(side, asset, k, e),
      contract_type |-> IF side = "C" THEN "call_options" ELSE "put_options"] :
        side \in Sides, asset \in Assets, k \in strikes, e \in dir}

\* the option_chain_data get_all_options_symbols builds from the matching
\* products: call_options under 'calls', everything else under 'puts'
ETH_chain(matching) ==
    LET withStrike == {p \in matching : extract_strike(p.symbol) > 0}
        cs == {p \in withStrike : p.contract_type = "call_options"}
        ps == withStrike \ cs
    IN  [calls |-> [k \in {extract_strike(p.symbol) : p \in cs} |->
                      (CHOOSE p \in cs : extract_strike(p.symbol) = k).symbol],
         puts  |-> [k \in {extract_strike(p.symbol) : p \in ps} |->
                      (CHOOSE p \in ps : extract_strike(p.symbol) = k).symbol]]

\* the order in which a batch lists the two symbols of one strike
BatchOrders == {"calls_first", "puts_first"}

\* the option_chain_data process_btc_options builds from the tickers of the
\* active expiry: 'C-' in symbol is tried first and 'P-' in symbol only when
\* it fails; the symbol seen last for a strike stays
BTC_chain(symbols, order) ==
    LET withStrike == {s \in symbols : extract_strike(s) > 0}
        cs == {s \in withStrike : InSymbol_C(s)}
        ps == {s \in withStrike : ~InSymbol_C(s) /\ InSymbol_P(s)}
        last(S, k) ==
            LET c == {s \in S : extract_strike(s) = k}
                lateSide == IF order = "calls_first" THEN "P" ELSE "C"
            IN  IF \E s \in c : s.side = lateSide
                THEN CHOOSE s \in c : s.side = lateSide
                ELSE CHOOSE s \in c : TRUE
    IN  [calls |-> [k \in {extract_strike(s) : s \in cs} |-> last(cs, k)],
         puts  |-> [k \in {extract_strike(s) : s \in ps} |-> last(ps, k)]]

(***************************************************************************)
(* SpecArb: the two arbitrage detectors applied to bounded books.          *)
(* inp = [asset, threshold, book]; book maps the symbols of one expiry to  *)
(* their quotes.  out is the set of alert keys handed to can_alert.        *)
(***************************************************************************)
\* the result of a function study before the function is applied
OutIdle == [state |-> "idle"]

\* the program state is not part of a function study
ProgIdle ==
    /\ now = 0 /\ listing = {} /\ eth = None /\ btc = None
    /\ alert_configs = None /\ new_system_active = FALSE
    /\ DELTA_THRESHOLD = None /\ sink = None /\ last_op = None /\ twin = None
    /\ threads = None

ArbExpiry == 10125

PriceVals == 0 .. MaxPrice

QuoteVals == [bid : PriceVals, ask : PriceVals]

FlatQuote == [bid |-> 1, ask |-> 1]

PartialFns(D, R) == UNION {[d -> R] : d \in SUBSET D}

ArbSymbols(asset, side) == {Sym(side, asset, k, ArbExpiry) : k \in ArbStrikes}

\* one side of the book takes every quote, the other side is absent or flat
\* at every strike
ArbBooks(asset) ==
    UNION {{f @@ g : f \in PartialFns(ArbSymbols(asset, side), QuoteVals),
                     g \in {<< >>, [s \in ArbSymbols(asset, CHOOSE o \in Sides : o # side)
                                        |-> FlatQuote]}} :
           side \in Sides}

ArbInit ==
    /\ ProgIdle
    /\ \E asset \in Assets, threshold \in 1 .. MaxThreshold :
         \E book \in ArbBooks(asset) :
            inp = [asset |-> asset, threshold |-> threshold, book |-> book]
    /\ out = OutIdle

ArbRunETH ==
    /\ out.state = "idle" /\ inp.asset = "ETH"
    /\ \E order \in DictOrders :
          out' = [state |-> "done",
                  keys |-> check_arbitrage_same_expiry(inp.book, ETH_winner(inp.book, order),
                                                       inp.threshold, ArbExpiry)]
    /\ UNCHANGED <<progVars, inp>>

ArbRunBTC ==
    /\ out.state = "idle" /\ inp.asset = "BTC"
    /\ out' = [state |-> "done",
               keys |-> check_arbitrage(group_by_strike(inp.book), inp.threshold)]
    /\ UNCHANGED <<progVars, inp>>

ArbNext == ArbRunETH \/ ArbRunBTC

SpecArb == ArbInit /\ [][ArbNext]_vars

\* what the book quotes for a side and a strike, 0 when it quotes nothing
BookQuote(book, side, strike) ==
    IF \E s \in DOMAIN book : s.side = side /\ s.strike = strike
    THEN book[CHOOSE s \in DOMAIN book : s.side = side /\ s.strike = strike]
    ELSE [bid |-> 0, ask |-> 0]

BookStrikes(book) == {s.strike : s \in DOMAIN book}

BookAdjacent(book) ==
    {p \in BookStrikes(book) \X BookStrikes(book) :
        p[1] < p[2] /\ ~ \E k \in BookStrikes(book) : p[1] < k /\ k < p[2]}

ArbKey(asset, side, s1, s2) ==
    IF asset = "ETH"
    THEN <<(IF side = "C" THEN "ETH_CALL" ELSE "ETH_PUT"), s1, s2, ArbExpiry>>
    ELSE <<(IF side = "C" THEN "BTC_CALL" ELSE "BTC_PUT"), s1, s2>>

\* C1: for every adjacent strike pair s1 < s2 the call condition is handed to
\* the cooldown gate iff ask(call,s1) > 0, bid(call,s2) > 0 and
\* bid(call,s2) - ask(call,s1) >= threshold; never when bid(call,s2) <= ask(call,s1);
\* and no call key is produced for a pair that is not adjacent.
C1_CallQualifiesIff ==
    out.state = "done" =>
        /\ \A p \in BookAdjacent(inp.book) :
              LET ask1 == BookQuote(inp.book, "C", p[1]).ask
                  bid2 == BookQuote(inp.book, "C", p[2]).bid
              IN  /\ (ArbKey(inp.asset, "C", p[1], p[2]) \in out.keys)
                        <=> (ask1 > 0 /\ bid2 > 0 /\ bid2 - ask1 >= inp.threshold)
                  /\ bid2 <= ask1 => ArbKey(inp.asset, "C", p[1], p[2]) \notin out.keys
        /\ \A p \in (ArbStrikes \X ArbStrikes) \ BookAdjacent(inp.book) :
              ArbKey(inp.asset, "C", p[1], p[2]) \notin out.keys

C1_Witness ==
    /\ out.state = "done"
    /\ Cardinality(BookStrikes(inp.book)) = 3
    /\ ArbKey(inp.asset, "C", 100, 105) \in out.keys
    /\ ArbKey(inp.asset, "C", 105, 110) \notin out.keys
    /\ BookQuote(inp.book, "C", 110).bid > 0

\* C2: for every adjacent strike pair s1 < s2 the put condition is handed to
\* the cooldown gate iff bid(put,s1) > 0, ask(put,s2) > 0 and
\* bid(put,s1) - ask(put,s2) >= threshold; never when bid(put,s1) <= ask(put,s2);
\* and no put key is produced for a pair that is not adjacent.
C2_PutQualifiesIff ==
    out.state = "done" =>
        /\ \A p \in BookAdjacent(inp.book) :
              LET bid1 == BookQuote(inp.book, "P", p[1]).bid
                  ask2 == BookQuote(inp.book, "P", p[2]).ask
              IN  /\ (ArbKey(inp.asset, "P", p[1], p[2]) \in out.keys)
                        <=> (bid1 > 0 /\ ask2 > 0 /\ bid1 - ask2 >= inp.threshold)
                  /\ bid1 <= ask2 => ArbKey(inp.asset, "P", p[1], p[2]) \notin out.keys
        /\ \A p \in (ArbStrikes \X ArbStrikes) \ BookAdjacent(inp.book) :
              ArbKey(inp.asset, "P", p[1], p[2]) \notin out.keys

C2_Witness ==
    /\ out.state = "done"
    /\ Cardinality(BookStrikes(inp.book)) = 3
    /\ ArbKey(inp.asset, "P", 105, 110) \in out.keys
    /\ ArbKey(inp.asset, "P", 100, 105) \notin out.keys
    /\ BookQuote(inp.book, "P", 100).bid > 0

(***************************************************************************)
(* Calendar and expiry codes                                               *)
(***************************************************************************)
\* a calendar date is [d, m, y] with y the two-digit year of 20yy
DaysInMonth(m, y) ==
    IF m = 2 THEN (IF y % 4 = 0 THEN 29 ELSE 28)
    ELSE IF m \in {4, 6, 9, 11} THEN 30 ELSE 31

\* ist_now + timedelta(days=1), on the date part
NextDay(date) ==
    IF date.d < DaysInMonth(date.m, date.y)
    THEN [d |-> date.d + 1, m |-> date.m, y |-> date.y]
    ELSE IF date.m < 12
    THEN [d |-> 1, m |-> date.m + 1, y |-> date.y]
    ELSE [d |-> 1, m |-> 1, y |-> (date.y + 1) % 100]

\* strftime("%d%m%y") read as a number
ExpiryCode(date) == date.d * 10000 + date.m * 100 + date.y

\* the calendar date an expiry code names
DateOfCode(code) == [d |-> code \div 10000, m |-> (code \div 100) % 100, y |-> code % 100]

\* ist_now.hour >= 17 and ist_now.minute >= 30
AfterCutover(hour, minute) == hour >= CUTOVER_HOUR /\ minute >= CUTOVER_MINUTE

\* should_rollover_expiry at IST time ist = [date, hour, minute]: tomorrow's
\* code, or 0 for the None it returns before the cutover
should_rollover_expiry(ist) ==
    IF AfterCutover(ist.hour, ist.minute) THEN ExpiryCode(NextDay(ist.date)) ELSE 0

\* get_current_expiry() at IST time ist
get_current_expiry(ist) == ExpiryCode(ist.date)

\* get_initial_active_expiry at IST time ist
get_initial_active_expiry(ist) ==
    IF AfterCutover(ist.hour, ist.minute) THEN ExpiryCode(NextDay(ist.date))
    ELSE get_current_expiry(ist)

Min(S) == CHOOSE x \in S : \A y \in S : x <= y

Max(S) == CHOOSE x \in S : \A y \in S : x >= y

\* a mutant of get_next_available_expiry: with no listing to go by it
\* answers the day after the current expiry
get_next_available_expiry_guess(current_expiry, available_expiries) ==
    IF available_expiries = {} THEN ExpiryCode(NextDay(DateOfCode(current_expiry)))
    ELSE IF \E expiry \in available_expiries : expiry > current_expiry
    THEN Min({expiry \in available_expiries : expiry > current_expiry})
    ELSE Max(available_expiries)

\* a mutant of get_next_available_expiry: past the greatest listed code it
\* starts again at the least
get_next_available_expiry_wrap(current_expiry, available_expiries) ==
    IF available_expiries = {} THEN current_expiry
    ELSE IF \E expiry \in available_expiries : expiry > current_expiry
    THEN Min({expiry \in available_expiries : expiry > current_expiry})
    ELSE Min(available_expiries)

\* get_next_available_expiry, given the sorted list get_available_expiries
\* returned (a set here: the list is sorted and holds no duplicates, and []
\* is what a failed fetch returns)
get_next_available_expiry(current_expiry, available_expiries) ==
    IF available_expiries = {} THEN current_expiry
    ELSE IF \E expiry \in available_expiries : expiry > current_expiry
    THEN Min({expiry \in available_expiries : expiry > current_expiry})
    ELSE Max(available_expiries)

(***************************************************************************)
(* SpecCutover: should_rollover_expiry and get_initial_active_expiry at    *)
(* every minute of three days (a year end, a leap day, a plain day).       *)
(* inp = [date, hour, minute]; out = [state, fn, value].                   *)
(***************************************************************************)
CutoverDates ==
    {[d |-> 31, m |-> 12, y |-> 24], [d |-> 28, m |-> 2, y |-> 24], [d |-> 14, m |-> 6, y |-> 25]}

CutoverInit ==
    /\ ProgIdle
    /\ inp \in [date : CutoverDates, hour : 0 .. 23, minute : 0 .. 59]
    /\ out = OutIdle

CutoverRunShould ==
    /\ out.state = "idle"
    /\ out' = [state |-> "done", fn |-> "should_rollover_expiry",
               value |-> should_rollover_expiry(inp)]
    /\ UNCHANGED <<progVars, inp>>

CutoverRunInitial ==
    /\ out.state = "idle"
    /\ out' = [state |-> "done", fn |-> "get_initial_active_expiry",
               value |-> get_initial_active_expiry(inp)]
    /\ UNCHANGED <<progVars, inp>>

CutoverNext == CutoverRunShould \/ CutoverRunInitial

SpecCutover == CutoverInit /\ [][CutoverNext]_vars

\* at or after 17:30 on the clock
AtOrAfterCutoverTime(hour, minute) == hour * 60 + minute >= 17 * 60 + 30

\* C8: at every IST time of day from 17:30 through 23:59 should_rollover_expiry
\* returns tomorrow's date and get_initial_active_expiry starts on tomorrow's
\* date; before 17:30 the candidate is absent and startup uses today's date.
C8_CutoverTrigger ==
    out.state = "done" =>
        LET after == AtOrAfterCutoverTime(inp.hour, inp.minute)
            tomorrow == ExpiryCode(NextDay(inp.date))
        IN  /\ out.fn = "should_rollover_expiry" =>
                  out.value = (IF after THEN tomorrow ELSE 0)
            /\ out.fn = "get_initial_active_expiry" =>
                  out.value = (IF after THEN tomorrow ELSE ExpiryCode(inp.date))

(***************************************************************************)
(* SpecNextExpiry: get_next_available_expiry on every listing drawn from   *)
(* five expiry codes around a year end.                                    *)
(* inp = [current, available]; out = [state, value].                       *)
(***************************************************************************)
NextExpiryCodes == {301224, 311224, 10125, 20125, 10225}

NextExpiryInit ==
    /\ ProgIdle
    /\ inp \in [current : NextExpiryCodes, available : SUBSET NextExpiryCodes]
    /\ out = OutIdle

NextExpiryRun ==
    /\ out.state = "idle"
    /\ out' = [state |-> "done",
               value |-> get_next_available_expiry(inp.current, inp.available)]
    /\ UNCHANGED <<progVars, inp>>

NextExpiryNext == NextExpiryRun

SpecNextExpiry == NextExpiryInit /\ [][NextExpiryNext]_vars

\* an expiry code as a number that grows with the calendar: YYMMDD
Chrono(code) == (code % 100) * 10000 + ((code \div 100) % 100) * 100 + code \div 10000

\* C7: for every non-empty listing L and every current expiry c,
\* get_next_available_expiry(c) is the chronologically earliest expiry of L
\* later than c, and the chronologically latest expiry of L when none is later.
C7_NextIsChronological ==
    (out.state = "done" /\ inp.available # {}) =>
        LET later == {e \in inp.available : Chrono(e) > Chrono(inp.current)}
        IN  IF later # {}
            THEN out.value \in later /\ \A e \in later : Chrono(out.value) <= Chrono(e)
            ELSE out.value \in inp.available
                 /\ \A e \in inp.available : Chrono(out.value) >= Chrono(e)

(***************************************************************************)
(* The running program: clock, directory, the two bots, the alert rules.   *)
(* A world w = [eth, btc, alert_configs, new_system_active,                *)
(* DELTA_THRESHOLD, sink] is the program's state; each handler is an       *)
(* operator from a world (and what the environment hands it) to a world.   *)
(***************************************************************************)
\* the clock value at construction and the horizon behaviours are followed to
StartClock == 1000

ClockHorizon == 60

\* the program is constructed on 30-12-24 at 17:29:30 IST
StartDate == [d |-> 30, m |-> 12, y |-> 24]

StartSecondOfDay == 17 * 3600 + 29 * 60 + 30

\* get_ist_time / datetime.now(timezone.utc) + 5:30 at clock value t
IstOf(t) ==
    LET s == StartSecondOfDay + (t - StartClock)
    IN  [date |-> IF s < 86400 THEN StartDate ELSE NextDay(StartDate),
         hour |-> (s % 86400) \div 3600,
         minute |-> (s % 3600) \div 60]

EmptyMap == [x \in {} |-> 0]

EmptyChain == [calls |-> EmptyMap, puts |-> EmptyMap]

\* ETHWebSocketBot.__init__ at IST time ist
ETH_init(ist) ==
    [active_expiry |-> get_initial_active_expiry(ist),
     options_prices |-> EmptyMap, active_symbols |-> {},
     option_chain_data |-> EmptyChain, connected |-> FALSE,
     last_expiry_check |-> 0, last_arbitrage_check |-> 0,
     last_alert_time |-> EmptyMap,
     message_count |-> 0, alert_count |-> 0, expiry_rollover_count |-> 0]

\* BTCRESTBot.__init__ at IST time ist
BTC_init(ist) ==
    [active_expiry |-> get_initial_active_expiry(ist),
     options_prices |-> EmptyMap, active_symbols |-> {},
     option_chain_data |-> EmptyChain, running |-> TRUE,
     last_expiry_check |-> 0, last_arbitrage_check |-> 0,
     last_alert_time |-> EmptyMap,
     fetch_count |-> 0, alert_count |-> 0, expiry_rollover_count |-> 0]

\* AlertConfig(): last_updated and active_expiry "" read as 0
AlertConfig ==
    [strike |-> 0, premium |-> 0, is_monitoring |-> FALSE,
     last_updated |-> 0, active_expiry |-> 0]

\* the module's globals and the two bots, as constructed at clock value t
WorldInit(t) ==
    [eth |-> ETH_init(IstOf(t)), btc |-> BTC_init(IstOf(t)),
     alert_configs |-> [id \in ConfigIds |-> AlertConfig],
     new_system_active |-> FALSE,
     DELTA_THRESHOLD |-> [asset \in Assets |->
                            IF asset = "ETH" THEN DELTA_THRESHOLD_ETH
                            ELSE DELTA_THRESHOLD_BTC],
     sink |-> EmptyMap]

\* get_available_expiries of the bot of asset: the expiries of the asset's
\* entries in the directory, [] when the request fails
get_available_expiries(asset, dir, ok) ==
    IF ~ok THEN {}
    ELSE {extract_expiry_from_symbol(p.symbol) :
             p \in {q \in dir : InSymbol_asset(asset, q.symbol)}}

\* a mutant of RolloverReset: the price snapshot survives the transition
RolloverReset_keep(bot, new_expiry) ==
    [bot EXCEPT !.active_expiry = new_expiry,
                !.expiry_rollover_count = @ + 1,
                !.active_symbols = {},
                !.option_chain_data = EmptyChain]

\* a mutant of RolloverReset: the transition also forgets the cooldown map
RolloverReset_forget(bot, new_expiry) ==
    [bot EXCEPT !.active_expiry = new_expiry,
                !.expiry_rollover_count = @ + 1,
                !.options_prices = EmptyMap,
                !.active_symbols = {},
                !.option_chain_data = EmptyChain,
                !.last_alert_time = EmptyMap]

\* the assignments of a transition: new active expiry, counter, cleared data
RolloverReset(bot, new_expiry) ==
    [bot EXCEPT !.active_expiry = new_expiry,
                !.expiry_rollover_count = @ + 1,
                !.options_prices = EmptyMap,
                !.active_symbols = {},
                !.option_chain_data = EmptyChain]

\* "for config_id in alert_configs: if is_monitoring: active_expiry = ..."
BindConfigs(configs, expiry) ==
    [id \in DOMAIN configs |->
        IF configs[id].is_monitoring
        THEN [configs[id] EXCEPT !.active_expiry = expiry] ELSE configs[id]]

RECURSIVE get_all_options_symbols(_, _, _)
\* ETH get_all_options_symbols: [bot, symbols]; net tells which requests the
\* network lets through.  self.active_expiry in symbol
\* is true of the symbols whose expiry part is the active expiry (no strike
\* of the directory has six digits).
get_all_options_symbols(bot, dir, net) ==
    IF ~net.products THEN [bot |-> bot, symbols |-> {}]
    ELSE LET matching == {p \in dir :
                             /\ p.contract_type \in {"call_options", "put_options"}
                             /\ InSymbol_asset("ETH", p.symbol)
                             /\ p.symbol.expiry = bot.active_expiry}
             b1 == [bot EXCEPT !.option_chain_data = ETH_chain(matching)]
             symbols == {p.symbol : p \in matching}
             available_expiries == get_available_expiries("ETH", dir, net.expiries)
             next_expiry == get_next_available_expiry(b1.active_expiry, available_expiries)
         IN  IF symbols # {} THEN [bot |-> b1, symbols |-> symbols]
             ELSE IF available_expiries # {} /\ next_expiry # b1.active_expiry
             THEN get_all_options_symbols([b1 EXCEPT !.active_expiry = next_expiry],
                                          dir, net)
             ELSE [bot |-> b1, symbols |-> {}]

\* one invocation of ETH get_all_options_symbols up to its return or its
\* call of itself: [bot, symbols, again], again when it calls itself with
\* the active expiry it has just switched to
get_all_options_symbols_once(bot, dir, net) ==
    IF ~net.products THEN [bot |-> bot, symbols |-> {}, again |-> FALSE]
    ELSE LET matching == {p \in dir :
                             /\ p.contract_type \in {"call_options", "put_options"}
                             /\ InSymbol_asset("ETH", p.symbol)
                             /\ p.symbol.expiry = bot.active_expiry}
             b1 == [bot EXCEPT !.option_chain_data = ETH_chain(matching)]
             symbols == {p.symbol : p \in matching}
             available_expiries == get_available_expiries("ETH", dir, net.expiries)
             next_expiry == get_next_available_expiry(b1.active_expiry, available_expiries)
         IN  IF symbols # {} THEN [bot |-> b1, symbols |-> symbols, again |-> FALSE]
             ELSE IF available_expiries # {} /\ next_expiry # b1.active_expiry
             THEN [bot |-> [b1 EXCEPT !.active_expiry = next_expiry],
                   symbols |-> {}, again |-> TRUE]
             ELSE [bot |-> b1, symbols |-> {}, again |-> FALSE]

BotOf(w, asset) == IF asset = "ETH" THEN w.eth ELSE w.btc

WithBot(w, asset, bot) ==
    IF asset = "ETH" THEN [w EXCEPT !.eth = bot] ELSE [w EXCEPT !.btc = bot]

\* subscribe_to_options that keeps the symbols of the previous subscription
\* next to the ones it has just been answered
SubscribeWith_stale(w, r, send_ok, t) ==
    IF r.symbols = {} THEN [w |-> [w EXCEPT !.eth = r.bot], raised |-> FALSE]
    ELSE IF ~send_ok
    THEN [w |-> [w EXCEPT !.eth = [r.bot EXCEPT !.active_symbols =
                                         r.symbols \cup w.eth.active_symbols]],
          raised |-> TRUE]
    ELSE [w |-> [w EXCEPT !.eth = [r.bot EXCEPT !.active_symbols =
                                         r.symbols \cup w.eth.active_symbols],
                          !.sink = send_telegram(@,
                                      Msg("connected", "ETH", <<r.bot.active_expiry>>, t))],
          raised |-> FALSE]

\* subscribe_to_options once get_all_options_symbols answered r
SubscribeWith(w, r, send_ok, t) ==
    IF r.symbols = {} THEN [w |-> [w EXCEPT !.eth = r.bot], raised |-> FALSE]
    ELSE IF ~send_ok
    THEN [w |-> [w EXCEPT !.eth = [r.bot EXCEPT !.active_symbols = r.symbols]],
          raised |-> TRUE]
    ELSE [w |-> [w EXCEPT !.eth = [r.bot EXCEPT !.active_symbols = r.symbols],
                          !.sink = send_telegram(@,
                                      Msg("connected", "ETH", <<r.bot.active_expiry>>, t))],
          raised |-> FALSE]

\* ETH subscribe_to_options: [w, raised]; raised when self.ws.send raises
subscribe_to_options(w, dir, net, t) ==
    SubscribeWith(w, get_all_options_symbols(w.eth, dir, net), net.send, t)

\* the end of a transition: the rollover notification, unless the
\* resubscription sub raised
TransitionEnd(asset, sub, kind, available, t) ==
    [w |-> IF sub.raised THEN sub.w
           ELSE [sub.w EXCEPT !.sink = send_telegram(@,
                    Msg("rollover", asset, <<BotOf(sub.w, asset).active_expiry>>, t))],
     raised |-> sub.raised, checked |-> TRUE,
     transition |-> kind, available |-> available]

\* "if self.connected and self.ws: self.subscribe_to_options()", ETH only
Resubscribe(asset, w, dir, net, t) ==
    IF asset = "ETH" /\ w.eth.connected
    THEN subscribe_to_options(w, dir, net, t)
    ELSE [w |-> w, raised |-> FALSE]

\* a transition of the bot of asset to new_expiry
Transition(asset, w, new_expiry, kind, available, dir, net, t) ==
    TransitionEnd(asset,
        Resubscribe(asset,
            [WithBot(w, asset, RolloverReset(BotOf(w, asset), new_expiry))
                EXCEPT !.alert_configs = BindConfigs(@, new_expiry)],
            dir, net, t),
        kind, available, t)

\* the two triggers of check_and_update_expiry, next_expiry being what
\* should_rollover_expiry said and actual_next what get_next_available_expiry
\* said of the listing available
CheckDecide(asset, w, next_expiry, available, actual_next, dir, net, t) ==
    IF /\ next_expiry # 0
       /\ next_expiry # BotOf(w, asset).active_expiry
       /\ actual_next # BotOf(w, asset).active_expiry
    THEN Transition(asset, w, actual_next, "time", available, dir, net, t)
    ELSE IF /\ available # {}
            /\ BotOf(w, asset).active_expiry \notin available
            /\ actual_next # BotOf(w, asset).active_expiry
    THEN Transition(asset, w, actual_next, "delisting", available, dir, net, t)
    ELSE [w |-> w, raised |-> FALSE, checked |-> TRUE,
          transition |-> "none", available |-> available]

\* check_and_update_expiry past its rate limit, the directory listing the
\* expiries available
CheckDue(asset, w, available, dir, net, t) ==
    CheckDecide(asset, w, should_rollover_expiry(IstOf(t)), available,
                get_next_available_expiry(BotOf(w, asset).active_expiry, available),
                dir, net, t)

\* check_and_update_expiry of the bot of asset:
\* [w, raised, checked, transition, available]
check_and_update_expiry(asset, w, dir, net, t) ==
    IF t - BotOf(w, asset).last_expiry_check < EXPIRY_CHECK_INTERVAL
    THEN [w |-> w, raised |-> FALSE, checked |-> FALSE,
          transition |-> "none", available |-> {}]
    ELSE CheckDue(asset,
                  WithBot(w, asset, [BotOf(w, asset) EXCEPT !.last_expiry_check = t]),
                  get_available_expiries(asset, dir, net.expiries),
                  dir, net, t)

\* no detection pass ran
NoTick == [found |-> {}, permitted |-> {}]

\* the end of a detection pass: the alerts sent, the counters and the time
\* of the pass recorded; g1 and g2 are what the gate said of the keys of the
\* arbitrage detector and of the threshold detector
DetectEnd(w, asset, arbKeys, userKeys, g1, g2, t) ==
    [w |-> [WithBot(w, asset,
                [BotOf(w, asset) EXCEPT !.last_alert_time = g2.last_alert_time,
                                        !.alert_count = @ + Cardinality(g1.permitted),
                                        !.last_arbitrage_check = t])
               EXCEPT !.sink = SendAll(SendAll(@, "arbitrage", asset, g1.permitted, t),
                                       "user_alert", asset, g2.permitted, t)],
     found |-> arbKeys \cup userKeys,
     permitted |-> g1.permitted \cup g2.permitted]

DetectUser(w, asset, arbKeys, userKeys, g1, t) ==
    DetectEnd(w, asset, arbKeys, userKeys, g1,
              GateAll(g1.last_alert_time, userKeys, t), t)

\* a detection pass of the bot of asset: [w, found, permitted], found the
\* alert keys the two detectors handed to can_alert and permitted those it
\* let through
Detect(w, asset, arbKeys, userKeys, t) ==
    DetectUser(w, asset, arbKeys, userKeys,
               GateAll(BotOf(w, asset).last_alert_time, arbKeys, t), t)

\* ETH check_arbitrage_opportunities: the alert keys handed to can_alert
check_arbitrage_opportunities(bot, threshold, order) ==
    IF Cardinality(DOMAIN bot.options_prices) < MIN_SYMBOLS THEN {}
    ELSE check_arbitrage_same_expiry(bot.options_prices,
                                     ETH_winner(bot.options_prices, order),
                                     threshold, bot.active_expiry)

\* ETH: check_arbitrage_opportunities then check_user_alerts, as
\* process_l1_orderbook_data runs them
ETH_detect(w, order, t) ==
    Detect(w, "ETH",
           check_arbitrage_opportunities(w.eth, w.DELTA_THRESHOLD["ETH"], order),
           check_user_alerts("ETH", w.new_system_active, w.alert_configs,
                             w.eth.option_chain_data, w.eth.options_prices),
           t)

\* self.options_prices[symbol] = {...}
StoreQuote(options_prices, symbol, quote) ==
    [s \in DOMAIN options_prices \cup {symbol} |->
        IF s = symbol THEN quote ELSE options_prices[s]]

\* process_l1_orderbook_data once the quote is stored
L1Stored(w, order, t) ==
    IF t - w.eth.last_arbitrage_check >= PROCESS_INTERVAL
    THEN ETH_detect(w, order, t)
    ELSE [w |-> w] @@ NoTick

\* a message that carries no symbol
NoSymbol == Sym("-", "-", 0, 0)

\* the values a JSON price field takes: a number (in hundredths), null, or
\* the empty string
Num(v) == [kind |-> "num", val |-> v]

Null == [kind |-> "null"]

Empty == [kind |-> "empty"]

\* "float(best_bid) if best_bid else 0"
L1Price(v) == IF v.kind = "num" THEN v.val ELSE 0

\* ETH process_l1_orderbook_data for msg = [type, symbol, bid, ask]: the
\* message is left alone when it has no symbol or a null price, when its
\* symbol is not an ETH one or not of the active expiry
process_l1_orderbook_data(w, msg, order, t) ==
    IF \/ msg.symbol = NoSymbol \/ msg.bid = Null \/ msg.ask = Null
       \/ ~InSymbol_asset("ETH", msg.symbol)
       \/ extract_expiry_from_symbol(msg.symbol) # w.eth.active_expiry
    THEN [w |-> w] @@ NoTick
    ELSE L1Stored([w EXCEPT !.eth.options_prices =
                               StoreQuote(@, msg.symbol,
                                          [bid |-> L1Price(msg.bid),
                                           ask |-> L1Price(msg.ask)])],
                  order, t)

\* on_message after check_and_update_expiry returned c
OnMessageChecked(c, msg, order, t) ==
    IF c.raised THEN [after_check |-> c.w.eth] @@ c @@ NoTick
    ELSE [after_check |-> c.w.eth]
         @@ (IF msg.type = "l1_orderbook"
             THEN process_l1_orderbook_data([c.w EXCEPT !.eth.message_count = @ + 1],
                                            msg, order, t)
             ELSE [w |-> [c.w EXCEPT !.eth.message_count = @ + 1]] @@ NoTick)
         @@ c

\* ETH on_message:
\* [w, raised, checked, transition, available, after_check, found, permitted]
on_message(w, msg, dir, net, order, t) ==
    OnMessageChecked(check_and_update_expiry("ETH", w, dir, net, t),
                     msg, order, t)

\* ETH on_open: [w, raised]
on_open(w, dir, net, t) ==
    subscribe_to_options([w EXCEPT !.eth.connected = TRUE], dir, net, t)

\* ETH on_close
on_close(w) == [w EXCEPT !.eth.connected = FALSE]

\* what GET /v2/tickers answers: every directory symbol with the quote the
\* profile gives its strike
Tickers(dir, profile) ==
    [s \in {p.symbol : p \in dir} |-> profile[s.strike]]

\* the tickers of a batch that process_btc_options keeps
CurrentExpiryTickers(bot, tickers) ==
    {s \in DOMAIN tickers : InSymbol_asset("BTC", s) /\ s.expiry = bot.active_expiry}

\* process_btc_options on the tickers current of a non-empty batch
ProcessCurrent(bot, tickers, current, order) ==
    [bot |-> [bot EXCEPT !.option_chain_data = BTC_chain(current, order),
                         !.active_symbols = current,
                         !.options_prices =
                             [s \in DOMAIN @ \cup current |->
                                 IF s \in current THEN tickers[s] ELSE @[s]]],
     grouped_data |-> group_by_strike([s \in current |-> tickers[s]])]

\* BTC process_btc_options: [bot, grouped_data]
process_btc_options(bot, tickers, order) ==
    IF DOMAIN tickers = {} THEN [bot |-> bot, grouped_data |-> EmptyMap]
    ELSE ProcessCurrent(bot, tickers, CurrentExpiryTickers(bot, tickers), order)

\* a mutant of BTC_detect: the detectors read the threshold and the rules
\* the program started with
BTC_detect_stale(w, grouped_data, t) ==
    Detect(w, "BTC",
           check_arbitrage(grouped_data, DELTA_THRESHOLD_BTC),
           check_user_alerts("BTC", FALSE, w.alert_configs,
                             w.btc.option_chain_data, w.btc.options_prices),
           t)

\* BTC: check_arbitrage then check_user_alerts, as start_monitoring runs them
BTC_detect(w, grouped_data, t) ==
    Detect(w, "BTC",
           check_arbitrage(grouped_data, w.DELTA_THRESHOLD["BTC"]),
           check_user_alerts("BTC", w.new_system_active, w.alert_configs,
                             w.btc.option_chain_data, w.btc.options_prices),
           t)

\* the loop iteration once process_btc_options returned p
CycleProcessed(w, p, t) ==
    IF t - p.bot.last_arbitrage_check >= PROCESS_INTERVAL
    THEN BTC_detect([w EXCEPT !.btc = p.bot], p.grouped_data, t)
    ELSE [w |-> [w EXCEPT !.btc = p.bot]] @@ NoTick

\* the loop iteration once check_and_update_expiry returned c
CycleChecked(c, tickers, order, t) ==
    [after_check |-> c.w.btc, polled |-> DOMAIN tickers]
    @@ CycleProcessed(c.w, process_btc_options(c.w.btc, tickers, order), t)
    @@ c

\* one iteration of the loop of BTC start_monitoring:
\* [w, raised, checked, transition, available, after_check, polled, found,
\* permitted]; polled is the set of symbols fetch_tickers answered
monitoring_cycle(w, dir, net, profile, order, t) ==
    CycleChecked(check_and_update_expiry("BTC", [w EXCEPT !.btc.fetch_count = @ + 1],
                                         dir, net, t),
                 IF net.tickers THEN Tickers(dir, profile) ELSE EmptyMap,
                 order, t)

\* what can be wrong with one entry of a batch: a symbol with fewer than
\* four parts, "quotes": null, "best_bid": null, a best_bid that is no number
BadKinds == {"short_symbol", "null_quotes", "null_bid", "text_bid"}

\* quotes.get(...) on None and float() of None or of text raise
Raises(kind) == kind \in {"null_quotes", "null_bid", "text_bid"}

\* process_btc_options on a batch whose entry bad.symbol, one of current,
\* makes the price loop raise: the chain and active_symbols are rebuilt, the
\* entries bad.before that the batch lists ahead of it are stored
ProcessRaised(bot, tickers, current, order, bad) ==
    [bot EXCEPT !.option_chain_data = BTC_chain(current, order),
                !.active_symbols = current,
                !.options_prices =
                    [s \in DOMAIN @ \cup bad.before |->
                        IF s \in bad.before THEN tickers[s] ELSE @[s]]]

\* the loop iteration once check_and_update_expiry returned c, the batch
\* holding the malformed entry bad; "except Exception" ends the iteration
CycleCheckedBad(c, tickers, order, bad, t) ==
    IF /\ DOMAIN tickers # {} /\ Raises(bad.kind)
       /\ bad.symbol \in CurrentExpiryTickers(c.w.btc, tickers)
    THEN [after_check |-> c.w.btc, polled |-> DOMAIN tickers,
          w |-> [c.w EXCEPT !.btc =
                    ProcessRaised(@, tickers, CurrentExpiryTickers(@, tickers), order,
                                  [bad EXCEPT !.before =
                                      @ \cap CurrentExpiryTickers(c.w.btc, tickers)])]]
         @@ NoTick @@ [c EXCEPT !.raised = TRUE]
    ELSE CycleChecked(c, tickers, order, t)

\* one iteration of the loop of BTC start_monitoring on a batch with the
\* malformed entry bad
monitoring_cycle_bad(w, dir, net, profile, order, bad, t) ==
    CycleCheckedBad(check_and_update_expiry("BTC", [w EXCEPT !.btc.fetch_count = @ + 1],
                                            dir, net, t),
                    IF net.tickers THEN Tickers(dir, profile) ELSE EmptyMap,
                    order, bad, t)

\* the fields of one alert rule in an /activate_alerts form
FormRule(strike, premium, monitor) ==
    [strike |-> strike, premium |-> premium, monitor |-> monitor]

\* the order in which activate_alerts takes the rules
ConfigOrder == <<"btc_call", "btc_put", "eth_call", "eth_put">>

\* one update block of activate_alerts
UpdatedConfig(w, id, rule, t) ==
    [strike |-> rule.strike, premium |-> rule.premium,
     is_monitoring |-> rule.monitor, last_updated |-> t,
     active_expiry |-> IF id \in {"btc_call", "btc_put"}
                       THEN w.btc.active_expiry ELSE w.eth.active_expiry]

RECURSIVE ActivateFrom(_, _, _, _)
\* the four update blocks of activate_alerts from block i on: float() raises
\* on the rule form.bad names, leaving the blocks before it applied
ActivateFrom(w, form, i, t) ==
    IF i > Len(ConfigOrder) THEN [w |-> w, raised |-> FALSE]
    ELSE IF form.bad = ConfigOrder[i] THEN [w |-> w, raised |-> TRUE]
    ELSE ActivateFrom([w EXCEPT !.alert_configs[ConfigOrder[i]] =
                                   UpdatedConfig(w, ConfigOrder[i],
                                                 form.rules[ConfigOrder[i]], t)],
                      form, i + 1, t)

\* any(config.is_monitoring for config in alert_configs.values())
AnyMonitoring(configs) == \E id \in DOMAIN configs : configs[id].is_monitoring

\* "if config actually changed"
ConfigChanged(old, new) ==
    \/ old.strike # new.strike
    \/ old.premium # new.premium
    \/ old.is_monitoring # new.is_monitoring

RECURSIVE SendConfigUpdates(_, _, _, _, _)
\* send_config_update_telegram for every rule whose strike, premium or
\* is_monitoring changed
SendConfigUpdates(snk, old, new, ids, t) ==
    IF ids = {} THEN snk
    ELSE SendConfigUpdates(
             IF ConfigChanged(old[CHOOSE x \in ids : TRUE], new[CHOOSE x \in ids : TRUE])
             THEN send_telegram(snk, Msg("config", CHOOSE x \in ids : TRUE,
                                         <<CHOOSE x \in ids : TRUE>>, t))
             ELSE snk,
             old, new, ids \ {CHOOSE x \in ids : TRUE}, t)

\* activate_alerts once its update blocks returned r
ActivateEnd(w, r, t) ==
    IF r.raised THEN r.w
    ELSE [r.w EXCEPT
            !.new_system_active = AnyMonitoring(r.w.alert_configs),
            !.sink = send_telegram(
                         SendConfigUpdates(@, w.alert_configs, r.w.alert_configs,
                                           ConfigIds, t),
                         Msg(IF AnyMonitoring(r.w.alert_configs)
                             THEN "activated" ELSE "deactivated", "all", <<>>, t))]

\* POST /activate_alerts with form = [rules, bad]
activate_alerts(w, form, t) == ActivateEnd(w, ActivateFrom(w, form, 1, t), t)

\* update_eth_threshold / update_btc_threshold with form = [threshold, bad]:
\* float() raises on a bad field, a threshold that is not positive is
\* refused
update_threshold(w, asset, form, t) ==
    IF form.bad \/ form.threshold <= 0 THEN w
    ELSE [w EXCEPT !.DELTA_THRESHOLD[asset] = form.threshold,
                   !.sink = send_telegram(@, Msg("threshold", asset, <<form.threshold>>, t))]

(***************************************************************************)
(* SpecUser: check_user_alerts of either bot on bounded rules, chains and  *)
(* snapshots.  inp = [asset, active, configs, order, bids]; the chain is   *)
(* the one the bot builds from the full listing of one expiry, bids gives  *)
(* the bid of both symbols of a strike (a strike outside its domain has no *)
(* snapshot entry).  out.keys are the alert keys handed to can_alert.      *)
(***************************************************************************)
UserRuleVals ==
    [strike : {0, 100, 110}, premium : {0, MaxPrice}, is_monitoring : BOOLEAN]

UserRuleOthers ==
    {[strike |-> 0, premium |-> 0, is_monitoring |-> FALSE],
     [strike |-> 105, premium |-> 1, is_monitoring |-> TRUE]}

\* one rule of the asset takes every value, the other is off or on
UserConfigs(asset) ==
    UNION {{(ConfigId(asset, side) :> r) @@
            (ConfigId(asset, IF side = "call" THEN "put" ELSE "call") :> o) :
               r \in UserRuleVals, o \in UserRuleOthers} : side \in {"call", "put"}}

UserChain(asset, order) ==
    IF asset = "ETH"
    THEN ETH_chain({p \in Products({ArbExpiry}, ArbStrikes) : p.symbol.asset = "ETH"})
    ELSE BTC_chain({p.symbol : p \in {q \in Products({ArbExpiry}, ArbStrikes) :
                                          q.symbol.asset = "BTC"}}, order)

UserPrices(asset, bids) ==
    [s \in {Sym(side, asset, k, ArbExpiry) : side \in Sides, k \in DOMAIN bids} |->
        [bid |-> bids[s.strike], ask |-> bids[s.strike]]]

UserInit ==
    /\ ProgIdle
    /\ \E asset \in Assets, active \in BOOLEAN, order \in BatchOrders :
         \E configs \in UserConfigs(asset), bids \in PartialFns(ArbStrikes, PriceVals) :
            inp = [asset |-> asset, active |-> active, configs |-> configs,
                   order |-> order, bids |-> bids]
    /\ out = OutIdle

UserRun ==
    /\ out.state = "idle"
    /\ out' = [state |-> "done",
               keys |-> check_user_alerts(inp.asset, inp.active, inp.configs,
                                          UserChain(inp.asset, inp.order),
                                          UserPrices(inp.asset, inp.bids))]
    /\ UNCHANGED <<progVars, inp>>

UserNext == UserRun

SpecUser == UserInit /\ [][UserNext]_vars

\* the strike and premium condition of section 4.4 for a rule and a strike
UserChainSide(side) ==
    IF side = "call" THEN UserChain(inp.asset, inp.order).calls
    ELSE UserChain(inp.asset, inp.order).puts

UserStrikeQualifies(side, rule, strike) ==
    LET snapshot == UserPrices(inp.asset, inp.bids)
        symbol == UserChainSide(side)[strike]
    IN  /\ symbol \in DOMAIN snapshot
        /\ (IF side = "call" THEN strike > rule.strike ELSE strike < rule.strike)
        /\ snapshot[symbol].bid >= rule.premium

\* C9 as claimed: for every enabled rule of an asset+side and every strike of
\* that side in the chain whose strike and premium condition holds, the key
\* (asset, side, strike, rule.strike) is handed to the cooldown gate, all of
\* them in the same pass, and no other strike produces a hit.
C9_EnabledRuleHits ==
    out.state = "done" =>
        \A side \in {"call", "put"} :
            LET rule == inp.configs[ConfigId(inp.asset, side)]
            IN  \A strike \in DOMAIN UserChainSide(side) :
                    (user_alert_key(inp.asset, side, strike, rule.strike) \in out.keys)
                        <=> (rule.is_monitoring /\ UserStrikeQualifies(side, rule, strike))

\* C9 amended: the key is handed to the gate exactly when, besides, the global
\* new_system_active flag is set and the rule's strike and premium are positive.
C9_EnabledPositiveRuleHits ==
    out.state = "done" =>
        \A side \in {"call", "put"} :
            LET rule == inp.configs[ConfigId(inp.asset, side)]
            IN  /\ \A strike \in DOMAIN UserChainSide(side) :
                      (user_alert_key(inp.asset, side, strike, rule.strike) \in out.keys)
                          <=> (/\ inp.active /\ rule.is_monitoring
                               /\ rule.strike > 0 /\ rule.premium > 0
                               /\ UserStrikeQualifies(side, rule, strike))
                /\ \A key \in out.keys :
                      \E sd \in {"call", "put"} :
                         \E strike \in DOMAIN UserChainSide(sd) :
                            key = user_alert_key(inp.asset, sd, strike,
                                     inp.configs[ConfigId(inp.asset, sd)].strike)

\* two strikes of one rule hit in the same pass, the third strike does not
C9_Witness ==
    /\ out.state = "done" /\ inp.asset = "ETH"
    /\ inp.configs["eth_call"].strike = 100 /\ inp.configs["eth_call"].is_monitoring
    /\ user_alert_key("ETH", "call", 105, 100) \in out.keys
    /\ user_alert_key("ETH", "call", 110, 100) \in out.keys
    /\ Cardinality(out.keys) = 2
    /\ DOMAIN inp.bids = ArbStrikes

(***************************************************************************)
(* The program as a state machine.  inp.focus names the bot whose thread   *)
(* the behaviour follows (the two bots share only the alert rules, the     *)
(* thresholds and the sink); out.detections logs every alert key a         *)
(* detection pass handed to can_alert, with the answer; last_op describes  *)
(* the handler that ran last.                                              *)
(***************************************************************************)
\* the most messages and polls a behaviour is followed for
MaxMessages == 3

MaxFetches == 3

SysStrikes == {100, 105}

\* the directory's successive states: the expiries it lists
DirExpiries == <<{301224, 311224}, {311224, 10125}, {10125, 20125}>>

Directory(i) == Products(DirExpiries[i], SysStrikes)

SysExpiries == UNION {DirExpiries[i] : i \in DOMAIN DirExpiries}

\* quotes per strike: Flat qualifies for nothing; Hot makes the call pair
\* (100, 105) an arbitrage for either threshold and bids 4.00 at strike 105
Flat == [k \in SysStrikes |-> [bid |-> 100, ask |-> 110]]

Hot == [k \in SysStrikes |-> IF k = 100 THEN [bid |-> 90, ask |-> 100]
                                        ELSE [bid |-> 400, ask |-> 410]]

World ==
    [eth |-> eth, btc |-> btc, alert_configs |-> alert_configs,
     new_system_active |-> new_system_active,
     DELTA_THRESHOLD |-> DELTA_THRESHOLD, sink |-> sink]

SetWorld(w) ==
    /\ eth' = w.eth /\ btc' = w.btc /\ alert_configs' = w.alert_configs
    /\ new_system_active' = w.new_system_active
    /\ DELTA_THRESHOLD' = w.DELTA_THRESHOLD /\ sink' = w.sink

Bot(asset) == IF asset = "ETH" THEN eth ELSE btc

\* last_op of a step that ran no rollover check
Op(name, asset) ==
    [op |-> name, asset |-> asset, at |-> now, checked |-> FALSE,
     transition |-> "none", available |-> {}, prev_expiry |-> 0,
     prev_symbols |-> {}, after_check |-> None, polled |-> {}]

\* last_op of a handler that ran check_and_update_expiry with result r
CheckedOp(name, asset, r) ==
    [op |-> name, asset |-> asset, at |-> now, checked |-> r.checked,
     transition |-> r.transition, available |-> r.available,
     prev_expiry |-> Bot(asset).active_expiry,
     prev_symbols |-> DOMAIN Bot(asset).options_prices,
     after_check |-> IF r.checked THEN r.after_check ELSE None,
     polled |-> IF "polled" \in DOMAIN r THEN r.polled ELSE {}]

\* the detections of a pass of the bot of asset with result r, logged
Logged(asset, r) ==
    out' = [out EXCEPT !.detections =
               @ \cup {[asset |-> asset, key |-> k, at |-> now,
                        ok |-> k \in r.permitted,
                        expiry |-> BotOf(r.w, asset).active_expiry] : k \in r.found}]

\* what the network does to the requests of one handler: whether the
\* expiries request (get_available_expiries), the products request
\* (get_all_options_symbols), the tickers request (fetch_tickers) and the
\* websocket send succeed
ETH_nets == [expiries : BOOLEAN, products : BOOLEAN, tickers : {TRUE}, send : BOOLEAN]

BTC_nets == [expiries : BOOLEAN, products : {TRUE}, tickers : BOOLEAN, send : {TRUE}]

\* the step of a handler that ran check_and_update_expiry and maybe a
\* detection pass, with result r
Handled(name, asset, r) ==
    /\ SetWorld(r.w)
    /\ last_op' = CheckedOp(name, asset, r)
    /\ Logged(asset, r)

\* the most threads that run start_monitoring in a behaviour
MaxThreads == 2

\* a thread that was never started
NoThread ==
    [pc |-> "none", current_time |-> 0, wake |-> 0,
     tickers |-> EmptyMap, grouped_data |-> EmptyMap]

\* threading.Thread(target=btc_bot.start_monitoring).start()
StartedThread == [NoThread EXCEPT !.pc = "start"]

\* the thread start_bots starts
ThreadsInit == [i \in 1 .. MaxThreads |-> IF i = 1 THEN StartedThread ELSE NoThread]

SysInit ==
    /\ now = StartClock
    /\ listing = Directory(1)
    /\ eth = WorldInit(StartClock).eth /\ btc = WorldInit(StartClock).btc
    /\ alert_configs = WorldInit(StartClock).alert_configs
    /\ new_system_active = WorldInit(StartClock).new_system_active
    /\ DELTA_THRESHOLD = WorldInit(StartClock).DELTA_THRESHOLD
    /\ sink = WorldInit(StartClock).sink
    /\ last_op = Op("init", "all")
    /\ twin = [on |-> FALSE]
    /\ threads = ThreadsInit
    /\ inp \in [focus : Assets]
    /\ out = [state |-> "log", detections |-> {}]

\* time passes, by one of steps
Advance(steps) ==
    /\ \E d \in steps :
          /\ now + d <= StartClock + ClockHorizon
          /\ now' = now + d
    /\ last_op' = Op("advance", "all")
    /\ UNCHANGED <<listing, eth, btc, alert_configs, new_system_active,
                   DELTA_THRESHOLD, sink, twin, threads, inp, out>>

\* the exchange delists the oldest expiries and lists later ones
ListingChange ==
    /\ \E i \in DOMAIN DirExpiries, j \in DOMAIN DirExpiries :
          /\ listing = Directory(i) /\ j > i
          /\ listing' = Directory(j)
    /\ last_op' = Op("listing", "all")
    /\ UNCHANGED <<now, eth, btc, alert_configs, new_system_active,
                   DELTA_THRESHOLD, sink, twin, threads, inp, out>>

\* the websocket opens: on_open
ETH_on_open ==
    /\ inp.focus = "ETH" /\ ~eth.connected
    /\ \E net \in ETH_nets :
          /\ SetWorld(on_open(World, listing, net, now).w)
          /\ twin' = IF twin.on
                      THEN [twin EXCEPT !.w = on_open(@, listing, net, now).w]
                      ELSE twin
    /\ last_op' = Op("on_open", "ETH")
    /\ UNCHANGED <<now, listing, threads, inp, out>>

\* the websocket closes: on_close, up to the end of the connect() that
\* follows its sleep, one of delays later
ETH_on_close(delays) ==
    /\ inp.focus = "ETH" /\ eth.connected
    /\ \E d \in delays :
          /\ d >= RECONNECT_DELAY
          /\ now + d <= StartClock + ClockHorizon
          /\ now' = now + d
    /\ SetWorld(on_close(World))
    /\ twin' = IF twin.on THEN [twin EXCEPT !.w = on_close(@)] ELSE twin
    /\ last_op' = Op("on_close", "ETH")
    /\ UNCHANGED <<listing, threads, inp, out>>

\* a message of the set msgs arrives on the open websocket: on_message, the
\* snapshot dict iterating in one of orders
ETH_on_message(msgs, orders) ==
    /\ inp.focus = "ETH" /\ eth.connected /\ eth.message_count < MaxMessages
    /\ \E msg \in msgs, net \in ETH_nets, order \in orders :
          /\ Handled("on_message", "ETH",
                     on_message(World, msg, listing, net, order, now))
          /\ twin' = IF twin.on
                      THEN [twin EXCEPT !.w = on_message(@, msg, listing, net, order, now).w]
                      ELSE twin
    /\ UNCHANGED <<now, listing, threads, inp>>

\* the BTC loop runs one iteration, the tickers quoting by one of profiles
BTC_cycle(profiles) ==
    /\ inp.focus = "BTC" /\ btc.running /\ btc.fetch_count < MaxFetches
    /\ \E profile \in profiles, net \in BTC_nets, order \in BatchOrders :
          /\ Handled("monitoring_cycle", "BTC",
                     monitoring_cycle(World, listing, net, profile, order, now))
          /\ twin' = IF twin.on
                      THEN [twin EXCEPT !.w = monitoring_cycle(@, listing, net, profile,
                                                               order, now).w]
                      ELSE twin
    /\ UNCHANGED <<now, listing, threads, inp>>

\* the form the second run receives where the first receives form: the
\* monitor box of the rule inp.rule is the other way round
TwinForm(form) == [form EXCEPT !.rules[inp.rule].monitor = ~@]

\* a POST /activate_alerts with one of forms, at most one request that goes
\* through per clock value
Activate(forms) ==
    /\ \A m \in DOMAIN sink : m.kind \in {"activated", "deactivated"} => m.at # now
    /\ \E form \in forms :
          /\ SetWorld(activate_alerts(World, form, now))
          /\ twin' = IF twin.on
                      THEN [twin EXCEPT !.w = activate_alerts(@, TwinForm(form), now)]
                      ELSE twin
    /\ last_op' = Op("activate_alerts", "all")
    /\ UNCHANGED <<now, listing, threads, inp, out>>

\* a POST /update_eth_threshold or /update_btc_threshold for the bot the
\* behaviour follows, with one of forms; a request is not repeated within
\* one clock value
UpdateThreshold(forms) ==
    /\ \E form \in forms :
          /\ Msg("threshold", inp.focus, <<form.threshold>>, now) \notin DOMAIN sink
          /\ SetWorld(update_threshold(World, inp.focus, form, now))
          /\ twin' = IF twin.on
                      THEN [twin EXCEPT !.w = update_threshold(@, inp.focus, form, now)]
                      ELSE twin
          /\ last_op' = Op("update_threshold", inp.focus) @@ [request |-> form]
    /\ UNCHANGED <<now, listing, threads, inp, out>>

L1Messages(symbols, profiles) ==
    {[type |-> "l1_orderbook", symbol |-> s,
      bid |-> Num(q[s.strike].bid), ask |-> Num(q[s.strike].ask)] :
        s \in symbols, q \in profiles}

Subscriptions == [type |-> "subscriptions", symbol |-> NoSymbol, bid |-> Null, ask |-> Null]

(***************************************************************************)
(* SpecRoll: the expiry lifecycle of both bots over the cutover of         *)
(* 30-12-24 and a directory that moves on to the new year.                 *)
(***************************************************************************)
\* quotes of every ETH symbol the directory ever lists, and of a BTC symbol
RollMessages ==
    L1Messages({Sym("C", "ETH", 100, e) : e \in SysExpiries}
               \cup {Sym("C", "BTC", 100, 301224)}, {Flat})
    \cup {Subscriptions}

RollAdvance == Advance({30})

RollClose == ETH_on_close({30})

RollMessage == ETH_on_message(RollMessages, {"old_last"})

RollCycle == BTC_cycle({Flat})

RollNext ==
    \/ RollAdvance \/ ListingChange
    \/ ETH_on_open \/ RollClose \/ RollMessage
    \/ RollCycle

SpecRoll == SysInit /\ [][RollNext]_vars

Range(f) == {f[x] : x \in DOMAIN f}

\* C4: right after check_and_update_expiry performed a transition, and at the
\* end of the handler that ran it, the asset's snapshot holds no entry of the
\* previous expiry, and every symbol of active_symbols and of the chain
\* carries the new active expiry.
C4_RolloverAtomic ==
    last_op.transition # "none" =>
        /\ \A b \in {last_op.after_check, Bot(last_op.asset)} :
              /\ \A s \in DOMAIN b.options_prices : s.expiry # last_op.prev_expiry
              /\ \A s \in b.active_symbols \cup Range(b.option_chain_data.calls)
                          \cup Range(b.option_chain_data.puts) :
                    s.expiry = b.active_expiry
        /\ Bot(last_op.asset).active_expiry = last_op.after_check.active_expiry
        /\ last_op.after_check.active_expiry # last_op.prev_expiry

\* a transition of the connected ETH bot that found quotes of the old expiry
\* in the snapshot and resubscribed to a non-empty symbol set of the new one
C4_Witness ==
    /\ last_op.transition # "none" /\ last_op.asset = "ETH"
    /\ \E s \in last_op.prev_symbols : s.expiry = last_op.prev_expiry
    /\ Bot(last_op.asset).active_symbols # {}
    /\ DOMAIN Bot(last_op.asset).option_chain_data.calls # {}

\* C5: in every reachable state every entry of each bot's price snapshot has
\* the bot's active expiry.
C5_SnapshotOfActiveExpiry ==
    \A asset \in Assets :
        \A s \in DOMAIN Bot(asset).options_prices :
            s.expiry = Bot(asset).active_expiry

\* the chronologically nearest later expiry of a non-empty listing, or its
\* latest one when none is later
ChronoNext(current, available) ==
    LET later == {e \in available : Chrono(e) > Chrono(current)}
    IN  IF later # {} THEN CHOOSE e \in later : \A o \in later : Chrono(e) <= Chrono(o)
        ELSE CHOOSE e \in available : \A o \in available : Chrono(e) >= Chrono(o)

\* C6: a rollover check that ran with a non-empty listing lacking the active
\* expiry ends with the nearest later listed expiry (the latest listed one
\* if none is later) active and the snapshot cleared, whatever the time.
C6_DelistingTrigger ==
    (/\ last_op.checked
     /\ last_op.available # {}
     /\ last_op.prev_expiry \notin last_op.available)
        => /\ last_op.after_check.active_expiry
                 = ChronoNext(last_op.prev_expiry, last_op.available)
           /\ DOMAIN last_op.after_check.options_prices = {}

\* the bot of asset after the step
BotAfter(asset) == IF asset = "ETH" THEN eth' ELSE btc'

\* C11: the ingestion adapters and the detectors leave active_expiry
\* unchanged and never reset the price snapshot: on_open keeps both, and a
\* handler that ran check_and_update_expiry ends with the active expiry the
\* check left and with every snapshot entry the check left.
C11_AdaptersKeepExpiry ==
    [][/\ last_op'.op = "on_open" =>
             /\ eth'.active_expiry = eth.active_expiry
             /\ DOMAIN eth.options_prices \subseteq DOMAIN eth'.options_prices
       /\ (last_op'.op \in {"on_message", "monitoring_cycle"} /\ last_op'.checked) =>
             /\ BotAfter(last_op'.asset).active_expiry = last_op'.after_check.active_expiry
             /\ DOMAIN last_op'.after_check.options_prices
                   \subseteq DOMAIN BotAfter(last_op'.asset).options_prices
       /\ (last_op'.op \in {"on_message", "monitoring_cycle"} /\ ~last_op'.checked) =>
             /\ BotAfter(last_op'.asset).active_expiry = last_op'.prev_expiry
             /\ last_op'.prev_symbols \subseteq DOMAIN BotAfter(last_op'.asset).options_prices
      ]_vars

RECURSIVE CountOf(_, _)
\* how many times the sink was handed one of the messages msgs
CountOf(snk, msgs) ==
    IF msgs = {} THEN 0
    ELSE LET m == CHOOSE x \in msgs : TRUE
         IN  snk[m] + CountOf(snk, msgs \ {m})

\* how many notifications of a kind the sink was handed for an asset
Notifications(snk, kind, asset) ==
    CountOf(snk, {m \in DOMAIN snk : m.kind = kind /\ m.asset = asset})

\* C12: every change of an asset's active expiry comes with exactly one
\* rollover notification for the asset and no second status notification,
\* and no rollover notification is sent without a change.
C12_OneNotificationPerChange ==
    [][\A asset \in Assets :
          /\ Notifications(sink', "rollover", asset) - Notifications(sink, "rollover", asset)
                = (IF BotAfter(asset).active_expiry # Bot(asset).active_expiry THEN 1 ELSE 0)
          /\ BotAfter(asset).active_expiry # Bot(asset).active_expiry =>
                Notifications(sink', "connected", asset) = Notifications(sink, "connected", asset)
      ]_vars

MaxGateClock == 125

GateKeys == {ArbKey(asset, "C", 100, 105) : asset \in Assets}

\* the times the entries of the map were recorded at
GateTimes == {0, 30, 60, 90}

GateInit ==
    /\ ProgIdle
    /\ \E last_alert_time \in PartialFns(GateKeys, GateTimes) :
         \E alert_key \in GateKeys, t \in 0 .. MaxGateClock :
            /\ \A k \in DOMAIN last_alert_time : last_alert_time[k] <= t
            /\ inp = [last_alert_time |-> last_alert_time,
                      alert_key |-> alert_key, t |-> t]
    /\ out = OutIdle

GateRun ==
    /\ out.state = "idle"
    /\ out' = [state |-> "done"] @@ can_alert(inp.last_alert_time, inp.alert_key, inp.t)
    /\ UNCHANGED <<progVars, inp>>

GateNext == GateRun

SpecGate == GateInit /\ [][GateNext]_vars

\* C19: can_alert answers true and records the current time for every key
\* the map has no entry for, whatever the clock shows, clocks below
\* ALERT_COOLDOWN included.
C19_FirstDetectionPermitted ==
    (out.state = "done" /\ inp.alert_key \notin DOMAIN inp.last_alert_time)
       => /\ out.ok
          /\ inp.alert_key \in DOMAIN out.last_alert_time
          /\ out.last_alert_time[inp.alert_key] = inp.t

\* C23: after a cycle of the BTC bot whose ticker fetch answered a batch,
\* the price snapshot holds exactly the BTC symbols of the batch whose
\* expiry is the active expiry; a symbol an earlier poll stored and the
\* batch no longer lists is gone.
C23_SnapshotIsLatestBatch ==
    [][(last_op'.op = "monitoring_cycle" /\ last_op'.polled # {})
          => DOMAIN btc'.options_prices
                = {s \in last_op'.polled :
                      InSymbol_asset("BTC", s) /\ s.expiry = btc'.active_expiry}
      ]_vars

(***************************************************************************)
(* SpecQuote: the ETH bot receiving quote events whose price fields are    *)
(* numbers, null or empty, for symbols of the active expiry, of another    *)
(* expiry and of the other asset, over the cutover.  last_op.msg is the    *)
(* message on_message was handed.                                          *)
(***************************************************************************)
QuoteInit == SysInit /\ inp.focus = "ETH"

QuoteBids == {Num(100), Null, Empty}

QuoteAsks == {Num(120), Null}

\* the products request answers; the expiries request and the send may fail
QuoteNets == {net \in ETH_nets : net.products}

QuoteMessages ==
    {[type |-> "l1_orderbook", symbol |-> s, bid |-> b, ask |-> a] :
        s \in {Sym("C", "ETH", 100, 301224), Sym("P", "ETH", 105, 311224),
               Sym("C", "BTC", 100, 301224)},
        b \in QuoteBids, a \in QuoteAsks}
    \cup {Subscriptions}

QuoteAdvance == Advance({30})

\* the ETH bot receives one of QuoteMessages
QuoteMessage ==
    /\ inp.focus = "ETH" /\ eth.connected /\ eth.message_count < MaxMessages
    /\ \E msg \in QuoteMessages, net \in QuoteNets :
          LET r == on_message(World, msg, listing, net, "old_last", now)
          IN  /\ SetWorld(r.w)
              /\ last_op' = CheckedOp("on_message", "ETH", r) @@ [msg |-> msg]
              /\ Logged("ETH", r)
    /\ UNCHANGED <<now, listing, twin, threads, inp>>

QuoteNext == QuoteAdvance \/ ETH_on_open \/ QuoteMessage

SpecQuote == QuoteInit /\ [][QuoteNext]_vars

\* the snapshot on_message finds once its rollover check has run
SnapshotAfterCheck ==
    IF last_op'.checked THEN last_op'.after_check.options_prices
    ELSE eth.options_prices

\* C24: a quote event whose symbol is not an ETH symbol or not of the active
\* expiry (as the rollover check of the same on_message left it) leaves the
\* snapshot as the check left it; every other quote event sets the entry of
\* its symbol to its bid and ask, null and empty counting as 0, and leaves
\* every other entry as the check left it.
C24_QuoteWriteThrough ==
    [][(last_op'.op = "on_message" /\ last_op'.msg.type = "l1_orderbook")
          => LET msg == last_op'.msg
             IN  IF \/ msg.symbol.asset # "ETH"
                    \/ msg.symbol.expiry # eth'.active_expiry
                 THEN eth'.options_prices = SnapshotAfterCheck
                 ELSE eth'.options_prices
                         = StoreQuote(SnapshotAfterCheck, msg.symbol,
                                      [bid |-> IF msg.bid.kind = "num"
                                               THEN msg.bid.val ELSE 0,
                                       ask |-> IF msg.ask.kind = "num"
                                               THEN msg.ask.val ELSE 0])
      ]_vars

C28_ExpiryAndSnapshotConsistent ==
    [][\A asset \in Assets :
          (\/ BotAfter(asset).active_expiry # Bot(asset).active_expiry
           \/ (last_op'.transition # "none" /\ last_op'.asset = asset))
             => \A s \in DOMAIN BotAfter(asset).options_prices :
                   s.expiry = BotAfter(asset).active_expiry
      ]_vars

(***************************************************************************)
(* SpecRetry: the connected ETH bot over the cutover and the minutes after *)
(* it, the connection staying up.  The network may fail any request of a   *)
(* handler; time passes up to RetryHorizon and messages for which every    *)
(* request succeeds keep arriving for ever (weak fairness).                *)
(***************************************************************************)
RetryHorizon == 150

RetryMessages == 5

RetryInit == SysInit /\ inp.focus = "ETH"

RetryAdvance ==
    /\ now + 30 <= StartClock + RetryHorizon
    /\ now' = now + 30
    /\ last_op' = Op("advance", "all")
    /\ UNCHANGED <<listing, eth, btc, alert_configs, new_system_active,
                   DELTA_THRESHOLD, sink, twin, threads, inp, out>>

\* the subscription of the old expiry still delivers its quotes
RetryQuotes ==
    L1Messages({Sym("C", "ETH", 100, 301224)}, {Flat}) \cup {Subscriptions}

\* message_count is a statistic (logged at 449, shown at 1540 and 1948) that
\* no decision reads: it is counted modulo RetryMessages, so that messages
\* keep arriving for as long as the connection is up
CountedTo(r, cap) ==
    [r EXCEPT !.w.eth.message_count = @ % cap]

\* the ETH bot receives a message, the network behaving as one of nets
RetryMessage(nets) ==
    /\ eth.connected
    /\ \E msg \in RetryQuotes, net \in nets :
          Handled("on_message", "ETH",
                  CountedTo(on_message(World, msg, listing, net, "old_last", now),
                            RetryMessages))
    /\ UNCHANGED <<now, listing, twin, threads, inp>>

\* every request succeeds
GoodNet == [expiries |-> TRUE, products |-> TRUE, tickers |-> TRUE, send |-> TRUE]

RetryAnyMessage == RetryMessage(ETH_nets)

RetryGoodMessage == RetryMessage({GoodNet})

RetryNext == RetryAdvance \/ ETH_on_open \/ RetryAnyMessage

\* weak fairness of the websocket opening and of a message arriving with
\* every request succeeding, the enabling condition of each written out
RetryFairness ==
    /\ WF_vars(RetryAdvance)
    /\ ([]<>(eth.connected) \/ []<><<ETH_on_open>>_vars)
    /\ ([]<>~(eth.connected) \/ []<><<RetryGoodMessage>>_vars)

SpecRetry == RetryInit /\ [][RetryNext]_vars /\ RetryFairness

\* a transition of the connected ETH bot has just ended without symbols to
\* subscribe to
FailedResubscription ==
    /\ last_op.op = "on_message" /\ last_op.transition # "none"
    /\ eth.connected
    /\ eth.active_symbols = {}

\* a subscription for the symbols of the active expiry was sent
SubscribedActive ==
    /\ eth.active_symbols # {}
    /\ \A s \in eth.active_symbols : s.expiry = eth.active_expiry
    /\ \E m \in DOMAIN sink :
          m.kind = "connected" /\ m.asset = "ETH" /\ m.key = <<eth.active_expiry>>

\* C29: when the resubscription of an ETH rollover ends without symbols
\* because the symbol fetch failed, and the connection stays up and later
\* requests succeed, a subscription for the symbols of the new active
\* expiry is eventually sent.
C29_ResubscriptionRetried == FailedResubscription ~> SubscribedActive

(***************************************************************************)
(* SpecLate: the expiry lifecycle of both bots over the cutover of         *)
(* 30-12-24 when the exchange lists tomorrow's contract late: at the       *)
(* cutover the directory holds the expired contract and those of the new   *)
(* year, then drops the expired one, then lists 311224.                    *)
(***************************************************************************)
LateExpiries == <<{301224, 10125, 20125}, {10125, 20125}, {311224, 10125, 20125}>>

LateDirectory(i) == Products(LateExpiries[i], SysStrikes)

LateInit ==
    /\ now = StartClock
    /\ listing = LateDirectory(1)
    /\ eth = WorldInit(StartClock).eth /\ btc = WorldInit(StartClock).btc
    /\ alert_configs = WorldInit(StartClock).alert_configs
    /\ new_system_active = WorldInit(StartClock).new_system_active
    /\ DELTA_THRESHOLD = WorldInit(StartClock).DELTA_THRESHOLD
    /\ sink = WorldInit(StartClock).sink
    /\ last_op = Op("init", "all")
    /\ twin = [on |-> FALSE]
    /\ threads = ThreadsInit
    /\ inp \in [focus : Assets]
    /\ out = [state |-> "log", detections |-> {}]

\* the directory moves on to its next state
LateListing ==
    /\ \E i \in DOMAIN LateExpiries :
          /\ listing = LateDirectory(i) /\ i + 1 \in DOMAIN LateExpiries
          /\ listing' = LateDirectory(i + 1)
    /\ last_op' = Op("listing", "all")
    /\ UNCHANGED <<now, eth, btc, alert_configs, new_system_active,
                   DELTA_THRESHOLD, sink, twin, threads, inp, out>>

LateNext ==
    \/ RollAdvance \/ LateListing
    \/ ETH_on_open \/ RollClose \/ RollMessage
    \/ RollCycle

SpecLate == LateInit /\ [][LateNext]_vars

\* C31: every step that changes the active expiry of a bot moves it to a
\* chronologically later date.
C31_ExpiryMovesForward ==
    [][\A asset \in Assets :
          BotAfter(asset).active_expiry # Bot(asset).active_expiry
             => Chrono(BotAfter(asset).active_expiry) > Chrono(Bot(asset).active_expiry)
      ]_vars

(***************************************************************************)
(* SpecQuiet: the ETH bot with its websocket open over the cutover and a   *)
(* directory that moves on.  Time keeps passing (weak fairness); whether   *)
(* and when the exchange sends a message is up to the exchange.            *)
(***************************************************************************)
QuietInit == SysInit /\ inp.focus = "ETH"

QuietAdvance == Advance({30})

QuietMessage == ETH_on_message(RollMessages, {"old_last"})

QuietNext == QuietAdvance \/ ListingChange \/ ETH_on_open \/ QuietMessage

SpecQuiet == QuietInit /\ [][QuietNext]_vars /\ WF_vars(QuietAdvance)

\* the websocket is open, no message has arrived since the clock or the
\* directory last moved, and a rollover check run now would leave the
\* active expiry e: the cutover has passed or e is delisted, and the
\* directory lists an expiry to move to
CheckOutstanding(e) ==
    LET available == get_available_expiries("ETH", listing, TRUE)
    IN  /\ eth.connected /\ eth.active_expiry = e
        /\ last_op.op \in {"advance", "listing"}
        /\ \/ should_rollover_expiry(IstOf(now)) \notin {0, e}
           \/ (available # {} /\ e \notin available)
        /\ get_next_available_expiry(e, available) # e

\* the active expiry has left e, or a message has arrived, or the
\* websocket has closed
CheckServed(e) ==
    \/ eth.active_expiry # e
    \/ last_op.op = "on_message"
    \/ ~eth.connected

\* C32: when the cutover passes, or the active expiry is delisted, while
\* the websocket is open and no message arrives, a rollover check still
\* runs and the active expiry of the ETH bot advances.
C32_CheckRunsWithoutTraffic ==
    \A e \in SysExpiries : CheckOutstanding(e) ~> CheckServed(e)

(***************************************************************************)
(* SpecStable: both bots over the cutover of 30-12-24 and the two minutes  *)
(* after it, under a directory that never changes and does not list        *)
(* tomorrow's contract: it lists today's and the month-end contracts of    *)
(* January and October 2025.                                               *)
(***************************************************************************)
StableExpiries == {301224, 310125, 311025}

StableInit ==
    /\ now = StartClock
    /\ listing = Products(StableExpiries, SysStrikes)
    /\ eth = WorldInit(StartClock).eth /\ btc = WorldInit(StartClock).btc
    /\ alert_configs = WorldInit(StartClock).alert_configs
    /\ new_system_active = WorldInit(StartClock).new_system_active
    /\ DELTA_THRESHOLD = WorldInit(StartClock).DELTA_THRESHOLD
    /\ sink = WorldInit(StartClock).sink
    /\ last_op = Op("init", "all")
    /\ twin = [on |-> FALSE]
    /\ threads = ThreadsInit
    /\ inp \in [focus : Assets]
    /\ out = [state |-> "log", detections |-> {}]

StableNext == RetryAdvance \/ ETH_on_open \/ RollMessage \/ RollCycle

SpecStable == StableInit /\ [][StableNext]_vars

\* C37: with an unchanged directory listing, once a rollover check has
\* moved the active expiry of a bot, no later check of the same
\* post-cutover period moves it again.
C37_RolloverStable ==
    [][\A asset \in Assets :
          Bot(asset).expiry_rollover_count >= 1
             => BotAfter(asset).active_expiry = Bot(asset).active_expiry
      ]_vars

(***************************************************************************)
(* SpecSymbols: get_all_options_symbols of the ETH bot, invocation by      *)
(* invocation, on every directory drawn from four expiry codes around a    *)
(* year end, each code unlisted, listed with its call and put options, or  *)
(* listed with a product that is no option.                                *)
(* inp = [active, dir, net]; out = [state, bot, symbols, depth], depth the *)
(* number of times the function has called itself.                         *)
(***************************************************************************)
\* the self-calls an execution is followed for
MaxDepth == 6

SymbolCodes == {301224, 311224, 10125, 20125}

\* a product of the expiry that is neither a call nor a put option
OtherProduct(e) ==
    [symbol |-> Sym("MV", "ETH", 100, e), contract_type |-> "move_options"]

SymbolDirs ==
    {{p \in Products(options, {100}) : p.symbol.asset = "ETH"}
        \cup {OtherProduct(e) : e \in others} :
            options \in SUBSET SymbolCodes, others \in SUBSET SymbolCodes}

SymbolNets == {net \in ETH_nets : net.send}

SymbolBot(active) == [ETH_init(IstOf(StartClock)) EXCEPT !.active_expiry = active]

SymbolsInit ==
    /\ ProgIdle
    /\ inp \in [active : SymbolCodes, dir : SymbolDirs, net : SymbolNets]
    /\ out = [state |-> "call", bot |-> SymbolBot(inp.active), symbols |-> {},
              depth |-> 0]

\* the invocation the execution is in runs to its return or to its call of
\* itself
SymbolsCall ==
    /\ out.state = "call" /\ out.depth < MaxDepth
    /\ LET r == get_all_options_symbols_once(out.bot, inp.dir, inp.net)
       IN  out' = IF r.again
                  THEN [out EXCEPT !.bot = r.bot, !.depth = @ + 1]
                  ELSE [out EXCEPT !.state = "done", !.bot = r.bot,
                                   !.symbols = r.symbols]
    /\ UNCHANGED <<progVars, inp>>

SymbolsNext == SymbolsCall

SpecSymbols == SymbolsInit /\ [][SymbolsNext]_vars

\* the expiries the directory lists for ETH
ListedExpiries == get_available_expiries("ETH", inp.dir, TRUE)

\* C39: get_all_options_symbols terminates for every directory listing: it
\* calls itself at most once per listed expiry, also when a listed expiry
\* has no call or put option, and returns what the recursive definition
\* gives.
C39_SymbolsTerminates ==
    /\ out.depth <= Cardinality(ListedExpiries)
    /\ out.depth < MaxDepth
    /\ out.state = "done" =>
          /\ get_all_options_symbols(SymbolBot(inp.active), inp.dir, inp.net).bot = out.bot
          /\ get_all_options_symbols(SymbolBot(inp.active), inp.dir, inp.net).symbols
                = out.symbols

\* the function returned without symbols after switching twice or more
\* through a directory that lists expiries but no option of theirs
C39_Witness ==
    /\ out.state = "done" /\ out.depth >= 2 /\ out.symbols = {}
    /\ ListedExpiries # {}
    /\ \A p \in inp.dir : p.contract_type = "move_options"
    /\ out.bot.active_expiry \in ListedExpiries

(***************************************************************************)
(* SpecAlerts: detection passes of either bot under the cooldown gate,     *)
(* with the call rules of both assets switched on by /activate_alerts and  *)
(* quotes that do and do not qualify, over a minute of clock.              *)
(***************************************************************************)
NoRule == FormRule(0, 0, FALSE)

\* both call rules at strike 100 and premium 2.00, the put rules off
AlertForm ==
    [rules |-> [id \in ConfigIds |->
                   IF id \in {"eth_call", "btc_call"} THEN FormRule(100, 200, TRUE)
                   ELSE NoRule],
     bad |-> None]

AlertMessages ==
    L1Messages({Sym("C", "ETH", 105, e) : e \in {301224, 311224}}, {Flat, Hot})

AlertAdvance == Advance({29, 30})

AlertActivate == Activate({AlertForm})

AlertMessage == ETH_on_message(AlertMessages, DictOrders)

AlertCycle == BTC_cycle({Flat, Hot})

AlertNext ==
    \/ AlertAdvance \/ AlertActivate
    \/ ETH_on_open \/ AlertMessage
    \/ AlertCycle

SpecAlerts == SysInit /\ [][AlertNext]_vars

\* how many alert notifications for a key of an asset the sink was handed
\* at clock value t
Notified(asset, key, t) ==
    LET ms == {m \in DOMAIN sink :
                  /\ m.kind \in {"arbitrage", "user_alert"}
                  /\ m.asset = asset /\ m.at = t /\ m.key = key}
    IN  IF ms = {} THEN 0
        ELSE IF Cardinality(ms) = 1 THEN sink[CHOOSE m \in ms : TRUE]
        ELSE 2

\* C3: a detection for an alert key is suppressed, and yields no
\* notification, when a detection for that key was permitted less than
\* ALERT_COOLDOWN before it; it is permitted, and yields exactly one
\* notification, when the last permitted one lies ALERT_COOLDOWN or more back.
C3_CooldownIdempotence ==
    \A d \in out.detections :
        /\ d.ok <=> ~ \E e \in out.detections :
                         /\ e.asset = d.asset /\ e.key = d.key /\ e.ok
                         /\ e.at < d.at /\ d.at - e.at < ALERT_COOLDOWN
        /\ Notified(d.asset, d.key, d.at) = (IF d.ok THEN 1 ELSE 0)

\* a key detected three times: permitted, suppressed within the window,
\* permitted again exactly ALERT_COOLDOWN after the first
C3_Witness ==
    \E d1 \in out.detections, d2 \in out.detections, d3 \in out.detections :
        /\ d1.asset = d2.asset /\ d2.asset = d3.asset
        /\ d1.key = d2.key /\ d2.key = d3.key
        /\ d1.ok /\ ~d2.ok /\ d3.ok
        /\ d1.at < d2.at /\ d2.at < d3.at
        /\ d3.at - d1.at = ALERT_COOLDOWN
        /\ Notified(d1.asset, d1.key, d1.at) = 1
        /\ Notified(d2.asset, d2.key, d2.at) = 0
        /\ Notified(d3.asset, d3.key, d3.at) = 1

\* the cooldown map of the bot of asset after the step
CooldownAfter(asset) == IF asset = "ETH" THEN eth'.last_alert_time
                        ELSE btc'.last_alert_time

\* C20: no step, a rollover included, removes an entry of a cooldown map
\* or lowers its time, and an entry is written only by a permitted
\* can_alert call: it then holds the clock of the call, and the entry it
\* replaces, if any, lies ALERT_COOLDOWN or more back; a suppressed call
\* leaves the map as it was.
C20_CooldownEntriesPersist ==
    [][\A asset \in Assets :
          LET old == Bot(asset).last_alert_time
              new == CooldownAfter(asset)
          IN  /\ DOMAIN old \subseteq DOMAIN new
              /\ \A k \in DOMAIN old : new[k] >= old[k]
              /\ \A k \in DOMAIN new :
                    (k \notin DOMAIN old \/ new[k] # old[k])
                       => /\ new[k] = now
                          /\ k \in DOMAIN old => now - old[k] >= ALERT_COOLDOWN
                          /\ \E d \in out'.detections :
                                /\ d.asset = asset /\ d.key = k
                                /\ d.at = now /\ d.ok
              /\ \A d \in out'.detections :
                    (d.asset = asset /\ d.at = now /\ ~d.ok)
                       => /\ d.key \in DOMAIN old
                          /\ new[d.key] = old[d.key]
      ]_vars

\* a detection suppressed after a rollover by an entry written before it
C20_Witness ==
    \E d \in out.detections, m \in DOMAIN sink :
        /\ ~d.ok /\ d.at = now
        /\ last_op.asset = d.asset /\ last_op.at = now
        /\ Bot(d.asset).expiry_rollover_count > 0
        /\ m.kind = "rollover" /\ m.asset = d.asset
        /\ d.key \in DOMAIN Bot(d.asset).last_alert_time
        /\ Bot(d.asset).last_alert_time[d.key] < m.at
        /\ m.at <= now

\* the keys of the arbitrage detectors (not those of the rule detector)
IsArbitrageKey(key) == key[1] \in {"ETH_CALL", "ETH_PUT", "BTC_CALL", "BTC_PUT"}

\* C21: an arbitrage detection is never suppressed by a cooldown entry that
\* a detection of the same asset, side and strike pair left under another
\* active expiry: whenever an arbitrage detection is suppressed, every
\* permitted detection of its key inside the window before it was made
\* under the active expiry the suppressed one is made under.
C21_ArbitrageKeyedByExpiry ==
    \A d \in out.detections :
        (~d.ok /\ IsArbitrageKey(d.key))
           => \A e \in out.detections :
                 (/\ e.asset = d.asset /\ e.key = d.key /\ e.ok
                  /\ e.at <= d.at /\ d.at - e.at < ALERT_COOLDOWN)
                    => e.expiry = d.expiry

\* C22: a step that leaves the snapshot of an asset with fewer than
\* MIN_SYMBOLS symbols (a detection pass, if the step ran one, saw that
\* snapshot) hands no arbitrage alert of that asset to the sink and writes
\* no cooldown entry for an arbitrage key of that asset.
C22_SparseSnapshotSilent ==
    [][\A asset \in Assets :
          Cardinality(DOMAIN BotAfter(asset).options_prices) < MIN_SYMBOLS
             => /\ Notifications(sink', "arbitrage", asset)
                      = Notifications(sink, "arbitrage", asset)
                /\ \A k \in DOMAIN CooldownAfter(asset) :
                      IsArbitrageKey(k)
                         => /\ k \in DOMAIN Bot(asset).last_alert_time
                            /\ CooldownAfter(asset)[k] = Bot(asset).last_alert_time[k]
      ]_vars

\* the BTC symbols of the batch of the last poll that are of the active
\* expiry the cycle ended with
PolledCurrent ==
    {s \in last_op'.polled : InSymbol_asset("BTC", s) /\ s.expiry = btc'.active_expiry}

\* C25: after a cycle of the BTC bot whose ticker fetch answered a batch,
\* the call chain holds exactly the strikes of the batch's active-expiry
\* call symbols and the put chain exactly those of its put symbols, and
\* every symbol stored in a chain is of the side group_by_strike gives it:
\* no put symbol is in the call chain.
C25_ChainSidesMatchSymbols ==
    [][(last_op'.op = "monitoring_cycle" /\ last_op'.polled # {})
          => LET chain == btc'.option_chain_data
             IN  /\ DOMAIN chain.calls
                       = {s.strike : s \in {c \in PolledCurrent : c.side = "C"}}
                 /\ DOMAIN chain.puts
                       = {s.strike : s \in {p \in PolledCurrent : p.side = "P"}}
                 /\ \A k \in DOMAIN chain.calls : option_type(chain.calls[k]) = "call"
                 /\ \A k \in DOMAIN chain.puts : option_type(chain.puts[k]) = "put"
      ]_vars

(***************************************************************************)
(* SpecBatch: the BTC loop polling batches of which one entry is           *)
(* malformed.  last_op.bad tells the entry, what is wrong with it and      *)
(* which entries the batch lists ahead of it.                              *)
(***************************************************************************)
BatchInit == SysInit /\ inp.focus = "BTC"

BatchSymbols == {p.symbol : p \in {q \in Directory(1) : InSymbol_asset("BTC", q.symbol)}}

\* the malformed entry: a short symbol is an entry of its own, the other
\* kinds sit on a listed symbol
BatchBad ==
    {[kind |-> "short_symbol", symbol |-> NoSymbol, before |-> {}]}
    \cup {[kind |-> kind, symbol |-> s, before |-> b] :
             kind \in BadKinds \ {"short_symbol"},
             s \in {x \in BatchSymbols : x.side = "C" /\ x.strike = 100},
             b \in {{}, {x \in BatchSymbols : x.side = "P"}}}

BatchAdvance == Advance({30})

\* the BTC loop runs one iteration on a batch with a malformed entry
BatchCycle ==
    /\ inp.focus = "BTC" /\ btc.running /\ btc.fetch_count < MaxFetches
    /\ \E profile \in {Hot}, net \in BTC_nets, bad \in BatchBad :
          LET r == monitoring_cycle_bad(World, listing, net, profile,
                                        "calls_first", bad, now)
          IN  /\ SetWorld(r.w)
              /\ last_op' = CheckedOp("monitoring_cycle", "BTC", r)
                               @@ [bad |-> bad, quotes |-> profile]
              /\ Logged("BTC", r)
    /\ UNCHANGED <<now, listing, twin, threads, inp>>

BatchNext == BatchAdvance \/ BatchCycle

SpecBatch == BatchInit /\ [][BatchNext]_vars

\* C26: when the ticker fetch of a BTC cycle answers a batch with one
\* malformed entry, every other BTC entry of the batch that is of the active
\* expiry is in the snapshot with the quote the batch gives it, and the
\* detection pass of the cycle runs if it is due.
C26_BadEntrySkipped ==
    [][(last_op'.op = "monitoring_cycle" /\ last_op'.polled # {})
          => /\ \A s \in PolledCurrent \ {last_op'.bad.symbol} :
                   /\ s \in DOMAIN btc'.options_prices
                   /\ btc'.options_prices[s] = last_op'.quotes[s.strike]
             /\ now - btc.last_arbitrage_check >= PROCESS_INTERVAL
                   => btc'.last_arbitrage_check = now
      ]_vars

\* the asset an alert rule is bound to
AssetOfConfig(id) == IF id \in {"btc_call", "btc_put"} THEN "BTC" ELSE "ETH"

\* C30: a step that changes the active expiry of an asset leaves the bound
\* expiry of every rule of that asset equal to the new active expiry and
\* the bound expiry of every rule of the other asset as it was; and after
\* every step each enabled rule is bound to the active expiry of its own
\* asset.
C30_RulesFollowOwnAsset ==
    [][/\ \A asset \in Assets :
             BotAfter(asset).active_expiry # Bot(asset).active_expiry
                => \A id \in ConfigIds :
                      IF AssetOfConfig(id) = asset
                      THEN alert_configs'[id].active_expiry
                              = BotAfter(asset).active_expiry
                      ELSE alert_configs'[id].active_expiry
                              = alert_configs[id].active_expiry
       /\ \A id \in ConfigIds :
             alert_configs'[id].is_monitoring
                => alert_configs'[id].active_expiry
                      = BotAfter(AssetOfConfig(id)).active_expiry
      ]_vars

(***************************************************************************)
(* SpecIndep: two runs of the program side by side.  twin.w is the world   *)
(* of the second run; both runs receive the same events, and every         *)
(* /activate_alerts form of the second run differs from the first run's    *)
(* in the monitor box of the rule inp.rule only.                           *)
(***************************************************************************)
OnRule == FormRule(100, 200, TRUE)

\* the rule whose notifications are compared: the call rule of the bot the
\* behaviour follows
IndepOther == ConfigId(inp.focus, "call")

\* forms that set the compared rule on or off, tick the box of inp.rule and
\* leave the other rules off; the last block of some of them does not parse
IndepForms ==
    {[rules |-> [id \in ConfigIds |->
                    IF id = IndepOther THEN other
                    ELSE IF id = inp.rule THEN OnRule ELSE NoRule],
      bad |-> bad] :
        other \in {NoRule, OnRule}, bad \in {None, "eth_put"}}

IndepInit ==
    /\ now = StartClock
    /\ listing = Directory(1)
    /\ eth = WorldInit(StartClock).eth /\ btc = WorldInit(StartClock).btc
    /\ alert_configs = WorldInit(StartClock).alert_configs
    /\ new_system_active = WorldInit(StartClock).new_system_active
    /\ DELTA_THRESHOLD = WorldInit(StartClock).DELTA_THRESHOLD
    /\ sink = WorldInit(StartClock).sink
    /\ last_op = Op("init", "all")
    /\ twin = [on |-> TRUE, w |-> WorldInit(StartClock)]
    /\ threads = ThreadsInit
    /\ \E focus \in Assets :
          \E rule \in ConfigIds \ {ConfigId(focus, "call")} :
             inp = [focus |-> focus, rule |-> rule]
    /\ out = [state |-> "log", detections |-> {}]

IndepMessages == L1Messages({Sym("C", "ETH", 105, 301224)}, {Flat, Hot})

IndepAdvance == Advance({60})

IndepActivate == Activate(IndepForms)

IndepMessage == ETH_on_message(IndepMessages, {"old_last"})

IndepCycle == BTC_cycle({Flat, Hot})

IndepNext ==
    \/ IndepAdvance \/ IndepActivate
    \/ ETH_on_open \/ IndepMessage
    \/ IndepCycle

SpecIndep == IndepInit /\ [][IndepNext]_vars

\* the alert rule an alert key of the threshold detector belongs to
RuleOfKey(key) ==
    IF key[1] = "ETH_CALL_ALERT" THEN "eth_call"
    ELSE IF key[1] = "ETH_PUT_ALERT" THEN "eth_put"
    ELSE IF key[1] = "BTC_CALL_ALERT" THEN "btc_call"
    ELSE "btc_put"

\* the notifications a sink was handed for the rules other than rule
OtherRuleNotifications(snk, rule) ==
    {<<m, snk[m]>> : m \in {x \in DOMAIN snk :
                               x.kind = "user_alert" /\ RuleOfKey(x.key) # rule}}

\* C10: two runs that differ only in the enabled flag of one alert rule R
\* produce the same notifications for every other rule.
C10_RuleIndependence ==
    OtherRuleNotifications(sink, inp.rule) = OtherRuleNotifications(twin.w.sink, inp.rule)

\* C17: an /activate_alerts request that fails (it reaches neither the
\* config notifications nor the activation message) leaves the four alert
\* rules and new_system_active as they were before the request.
C17_FailedRequestChangesNothing ==
    [][(last_op'.op = "activate_alerts" /\ sink' = sink) =>
          /\ alert_configs' = alert_configs
          /\ new_system_active' = new_system_active
      ]_vars

\* C38: in every state reached after an /activate_alerts request returned,
\* with success or with an error, new_system_active says whether at least
\* one alert rule has is_monitoring set.
C38_FlagMatchesRules == new_system_active = AnyMonitoring(alert_configs)

(***************************************************************************)
(* SpecPoll: the threads that run BTC start_monitoring, statement group by *)
(* statement group, with /stop_btc, /start_btc and /activate_alerts served *)
(* by request threads in between.  threads[i] holds thread i's position    *)
(* and locals; out.ticks logs the detection passes in the order they ran.  *)
(***************************************************************************)
BTC_FETCH_INTERVAL == 1

\* the most loop iterations the threads are followed for
PollFetches == 2

\* seconds of clock a behaviour of the threads is followed for
PollHorizon == 1

\* thread i with its position and locals replaced
SetThread(i, th) == threads' = [threads EXCEPT ![i] = th]

\* a thread between the steps of a rollover reset or of the poll's
\* clear-then-repopulate
MidUpdate(th) == th.pc \in {"reset", "cleared"}

PollInit ==
    /\ now = StartClock
    /\ listing = Directory(1)
    /\ eth = WorldInit(StartClock).eth /\ btc = WorldInit(StartClock).btc
    /\ alert_configs = WorldInit(StartClock).alert_configs
    /\ new_system_active = WorldInit(StartClock).new_system_active
    /\ DELTA_THRESHOLD = WorldInit(StartClock).DELTA_THRESHOLD
    /\ sink = WorldInit(StartClock).sink
    /\ last_op = Op("init", "all")
    /\ twin = [on |-> FALSE]
    /\ threads = ThreadsInit
    /\ inp = [focus |-> "BTC"]
    /\ out = [state |-> "log", detections |-> {}, ticks |-> << >>]

\* start_monitoring up to its loop: the connection notification
Poll_start(i) ==
    /\ threads[i].pc = "start"
    /\ sink' = send_telegram(sink, Msg("connected", "BTC", <<btc.active_expiry>>, now))
    /\ SetThread(i, [threads[i] EXCEPT !.pc = "top"])
    /\ last_op' = Op("start_monitoring", "BTC")
    /\ UNCHANGED <<now, listing, eth, btc, alert_configs, new_system_active,
                   DELTA_THRESHOLD, twin, inp, out>>

\* "while self.running:" and, inside the loop, "self.fetch_count += 1",
\* reached from the start of the thread or when sleep(BTC_FETCH_INTERVAL)
\* returns
Poll_loop(i) ==
    /\ \/ threads[i].pc = "top"
       \/ threads[i].pc = "sleep" /\ now >= threads[i].wake
    /\ btc.running => btc.fetch_count < PollFetches
    /\ btc' = IF btc.running THEN [btc EXCEPT !.fetch_count = @ + 1] ELSE btc
    /\ SetThread(i, [threads[i] EXCEPT !.pc = IF btc.running THEN "check" ELSE "exited",
                                       !.wake = 0])
    /\ last_op' = Op("start_monitoring", "BTC")
    /\ UNCHANGED <<now, listing, eth, alert_configs, new_system_active,
                   DELTA_THRESHOLD, sink, twin, inp, out>>

\* check_and_update_expiry, up to "self.options_prices = {}" when it
\* performs a transition
Poll_check(i, nets) ==
    /\ threads[i].pc = "check"
    /\ \E net \in nets :
         LET c == check_and_update_expiry("BTC", World, listing, net, now)
         IN  IF c.transition = "none"
             THEN /\ SetWorld(c.w)
                  /\ SetThread(i, [threads[i] EXCEPT !.pc = "fetch"])
             ELSE /\ btc' = [c.w.btc EXCEPT !.active_symbols = btc.active_symbols,
                                            !.option_chain_data = btc.option_chain_data]
                  /\ SetThread(i, [threads[i] EXCEPT !.pc = "reset"])
                  /\ UNCHANGED <<eth, alert_configs, new_system_active,
                                 DELTA_THRESHOLD, sink>>
    /\ last_op' = Op("start_monitoring", "BTC")
    /\ UNCHANGED <<now, listing, twin, inp, out>>

\* the rest of a transition: active_symbols and the chain cleared, the
\* monitored rules bound to the new expiry, the rollover notification
Poll_reset(i) ==
    /\ threads[i].pc = "reset"
    /\ btc' = [btc EXCEPT !.active_symbols = {}, !.option_chain_data = EmptyChain]
    /\ alert_configs' = BindConfigs(alert_configs, btc.active_expiry)
    /\ sink' = send_telegram(sink, Msg("rollover", "BTC", <<btc.active_expiry>>, now))
    /\ SetThread(i, [threads[i] EXCEPT !.pc = "fetch"])
    /\ last_op' = Op("start_monitoring", "BTC")
    /\ UNCHANGED <<now, listing, eth, new_system_active, DELTA_THRESHOLD,
                   twin, inp, out>>

\* process_btc_options up to "self.option_chain_data = {'calls': {},
\* 'puts': {}}", or to its "return {}" when no tickers came
Poll_fetch(i, profiles, nets) ==
    /\ threads[i].pc = "fetch"
    /\ \E profile \in profiles, net \in nets :
         LET tickers == IF net.tickers THEN Tickers(listing, profile) ELSE EmptyMap
         IN  IF DOMAIN tickers = {}
             THEN /\ SetThread(i, [threads[i] EXCEPT !.pc = "test",
                                                     !.grouped_data = EmptyMap])
                  /\ btc' = btc
             ELSE /\ SetThread(i, [threads[i] EXCEPT !.pc = "cleared",
                                                     !.tickers = tickers])
                  /\ btc' = [btc EXCEPT !.option_chain_data = EmptyChain]
    /\ last_op' = Op("start_monitoring", "BTC")
    /\ UNCHANGED <<now, listing, eth, alert_configs, new_system_active,
                   DELTA_THRESHOLD, sink, twin, inp, out>>

\* the rest of process_btc_options: chain, active_symbols and prices of the
\* tickers of the active expiry, grouped by strike
Poll_populate(i, orders) ==
    /\ threads[i].pc = "cleared"
    /\ \E order \in orders :
         LET p == process_btc_options(btc, threads[i].tickers, order)
         IN  /\ btc' = p.bot
             /\ SetThread(i, [threads[i] EXCEPT !.pc = "test", !.tickers = EmptyMap,
                                                !.grouped_data = p.grouped_data])
    /\ last_op' = Op("start_monitoring", "BTC")
    /\ UNCHANGED <<now, listing, eth, alert_configs, new_system_active,
                   DELTA_THRESHOLD, sink, twin, inp, out>>

\* "current_time = datetime.now().timestamp()" and the interval test
Poll_test(i) ==
    /\ threads[i].pc = "test"
    /\ SetThread(i,
          IF now - btc.last_arbitrage_check >= PROCESS_INTERVAL
          THEN [threads[i] EXCEPT !.pc = "tick", !.current_time = now]
          ELSE [threads[i] EXCEPT !.pc = "sleep", !.grouped_data = EmptyMap,
                                  !.wake = now + BTC_FETCH_INTERVAL])
    /\ last_op' = Op("start_monitoring", "BTC")
    /\ UNCHANGED <<now, listing, eth, btc, alert_configs, new_system_active,
                   DELTA_THRESHOLD, sink, twin, inp, out>>

\* the detection pass: check_arbitrage, check_user_alerts and
\* "self.last_arbitrage_check = current_time"
Poll_tick(i) ==
    /\ threads[i].pc = "tick"
    /\ LET r == BTC_detect(World, threads[i].grouped_data, now)
       IN  /\ SetWorld([r.w EXCEPT !.btc.last_arbitrage_check = threads[i].current_time])
           /\ out' = [out EXCEPT
                        !.detections = @ \cup {[asset |-> "BTC", key |-> k, at |-> now,
                                                ok |-> k \in r.permitted,
                                                expiry |-> r.w.btc.active_expiry] :
                                                   k \in r.found},
                        !.ticks = Append(@,
                            [thread |-> i, at |-> threads[i].current_time,
                             torn |-> \E j \in DOMAIN threads :
                                         j # i /\ MidUpdate(threads[j]),
                             reads_chain |-> new_system_active,
                             chain |-> btc.option_chain_data])]
    /\ SetThread(i, [threads[i] EXCEPT !.pc = "sleep", !.grouped_data = EmptyMap,
                                       !.current_time = 0,
                                       !.wake = now + BTC_FETCH_INTERVAL])
    /\ last_op' = Op("start_monitoring", "BTC")
    /\ UNCHANGED <<now, listing, twin, inp>>

\* a mutant of stop: the flag is flipped
stop_toggle(bot) == [bot EXCEPT !.running = ~@]

\* BTCRESTBot.stop
stop(bot) == [bot EXCEPT !.running = FALSE]

\* GET /stop_btc
stop_btc ==
    /\ btc' = stop(btc)
    /\ last_op' = [Op("stop_btc", "BTC") EXCEPT !.checked = ~btc.running]
    /\ UNCHANGED <<now, listing, eth, alert_configs, new_system_active,
                   DELTA_THRESHOLD, sink, twin, threads, inp, out>>

\* GET /start_btc: a new thread when the bot is not running
start_btc ==
    /\ IF btc.running
       THEN UNCHANGED <<btc, threads>>
       ELSE /\ \E i \in DOMAIN threads :
                 /\ threads[i].pc = "none"
                 /\ \A j \in DOMAIN threads : j < i => threads[j].pc # "none"
                 /\ SetThread(i, StartedThread)
            /\ btc' = [btc EXCEPT !.running = TRUE]
    /\ last_op' = Op("start_btc", "BTC")
    /\ UNCHANGED <<now, listing, eth, alert_configs, new_system_active,
                   DELTA_THRESHOLD, sink, twin, inp, out>>

PollNets == {n \in BTC_nets : n.expiries /\ n.tickers}

PollAdvance == now < StartClock + PollHorizon /\ Advance({1})

\* the call rules are switched on once
PollActivate == ~new_system_active /\ Activate({AlertForm})

\* the exchange delists the expiry of the day
PollListing == listing = Directory(1) /\ ListingChange /\ listing' = Directory(2)

PollThread ==
    \E i \in DOMAIN threads :
        \/ Poll_start(i) \/ Poll_loop(i)
        \/ Poll_check(i, PollNets) \/ Poll_reset(i)
        \/ Poll_fetch(i, {Hot}, PollNets) \/ Poll_populate(i, {"calls_first"})
        \/ Poll_test(i) \/ Poll_tick(i)

PollNext ==
    \/ PollAdvance \/ PollListing \/ PollActivate
    \/ stop_btc \/ start_btc
    \/ PollThread

SpecPoll == PollInit /\ [][PollNext]_vars

\* C13: any two detection ticks of the polled asset are at least
\* PROCESS_INTERVAL seconds apart, whatever /stop_btc and /start_btc
\* requests were served.
C13_TicksApart ==
    \A i, j \in DOMAIN out.ticks :
        i < j => \/ out.ticks[j].at - out.ticks[i].at >= PROCESS_INTERVAL
                 \/ out.ticks[i].at - out.ticks[j].at >= PROCESS_INTERVAL

\* C14: no detection tick that reads the chain and the price snapshot runs
\* while another thread is between the steps of a rollover reset or of the
\* poll's clear-then-repopulate.
C14_NoHalfClearedRead ==
    \A k \in DOMAIN out.ticks : ~(out.ticks[k].reads_chain /\ out.ticks[k].torn)

(***************************************************************************)
(* SpecSend: the BTC loop thread with the rollover notification of         *)
(* check_and_update_expiry as a call that takes time: requests.post is     *)
(* given no timeout, so the thread stays at pc "send" until the sink       *)
(* answers or the request fails.  The thread's own steps and the clock are *)
(* weakly fair; when the sink answers is up to the sink.                   *)
(***************************************************************************)
\* the transition up to the call of send_telegram: active_symbols and the
\* chain cleared, the monitored rules bound to the new expiry
Send_reset(i) ==
    /\ threads[i].pc = "reset"
    /\ btc' = [btc EXCEPT !.active_symbols = {}, !.option_chain_data = EmptyChain]
    /\ alert_configs' = BindConfigs(alert_configs, btc.active_expiry)
    /\ SetThread(i, [threads[i] EXCEPT !.pc = "send"])
    /\ last_op' = Op("start_monitoring", "BTC")
    /\ UNCHANGED <<now, listing, eth, new_system_active, DELTA_THRESHOLD,
                   sink, twin, inp, out>>

\* requests.post returns, with the message delivered or with an error that
\* send_telegram prints, and check_and_update_expiry returns True
Send_return(i) ==
    /\ threads[i].pc = "send"
    /\ \E delivered \in BOOLEAN :
          sink' = IF delivered
                  THEN send_telegram(sink, Msg("rollover", "BTC",
                                               <<btc.active_expiry>>, now))
                  ELSE sink
    /\ SetThread(i, [threads[i] EXCEPT !.pc = "fetch"])
    /\ last_op' = Op("send_telegram", "BTC")
    /\ UNCHANGED <<now, listing, eth, btc, alert_configs, new_system_active,
                   DELTA_THRESHOLD, twin, inp, out>>

\* a step of the loop thread other than the return of the sink
SendThread ==
    \E i \in DOMAIN threads :
        \/ Poll_start(i) \/ Poll_loop(i)
        \/ Poll_check(i, PollNets) \/ Send_reset(i)
        \/ Poll_fetch(i, {Flat}, PollNets) \/ Poll_populate(i, {"calls_first"})
        \/ Poll_test(i) \/ Poll_tick(i)

SendSink == \E i \in DOMAIN threads : Send_return(i)

SendNext == PollAdvance \/ PollListing \/ SendThread \/ SendSink

SpecSend ==
    PollInit /\ [][SendNext]_vars /\ WF_vars(PollAdvance) /\ WF_vars(SendThread)

\* the loop thread is inside a send_telegram call, n polls made so far and
\* more polls to follow
SendInFlight(n) ==
    /\ \E i \in DOMAIN threads : threads[i].pc = "send"
    /\ btc.running /\ btc.fetch_count = n /\ n < PollFetches

\* the call has returned, or the bot has polled again
SendOverOrPolled(n) ==
    \/ \A i \in DOMAIN threads : threads[i].pc # "send"
    \/ btc.fetch_count > n

\* C33: while a send to the sink has not returned, the polls and rollover
\* checks of the same asset go on: a send in flight is followed by its
\* return or by a further poll.
C33_SendNeverStallsIngestion ==
    \A n \in 0 .. PollFetches : SendInFlight(n) ~> SendOverOrPolled(n)

(***************************************************************************)
(* SpecMix: an /activate_alerts request served by a request thread while   *)
(* the BTC loop thread runs: the three assignments to the btc_call rule    *)
(* are steps of their own, the rest of the handler is one step.  inp holds *)
(* the request being served: its form, the old_configs copy it took and    *)
(* how far it got (pc), and how many requests were served.                 *)
(***************************************************************************)
\* the most /activate_alerts requests of a behaviour
MixRequests == 2

MixForm(strike, premium, monitor) ==
    [rules |-> [id \in ConfigIds |->
                   IF id = "btc_call" THEN FormRule(strike, premium, monitor)
                   ELSE NoRule],
     bad |-> None]

\* the btc_call rule set above every listed strike, then moved below strike
\* 105 with a premium no bid reaches, or moved there and switched off
MixForms == {MixForm(110, 200, TRUE), MixForm(100, 500, TRUE), MixForm(100, 200, FALSE)}

NoRequest == [focus |-> "BTC", pc |-> "idle", form |-> None, old |-> None, served |-> 0]

MixInit ==
    /\ now = StartClock
    /\ listing = Directory(1)
    /\ eth = WorldInit(StartClock).eth /\ btc = WorldInit(StartClock).btc
    /\ alert_configs = WorldInit(StartClock).alert_configs
    /\ new_system_active = WorldInit(StartClock).new_system_active
    /\ DELTA_THRESHOLD = WorldInit(StartClock).DELTA_THRESHOLD
    /\ sink = WorldInit(StartClock).sink
    /\ last_op = Op("init", "all")
    /\ twin = [on |-> FALSE]
    /\ threads = ThreadsInit
    /\ inp = NoRequest
    /\ out = [state |-> "log", detections |-> {}, ticks |-> << >>]

\* activate_alerts up to the first assignment: the old_configs copy and the
\* parsing of the btc_call fields
Mix_begin ==
    /\ inp.pc = "idle" /\ inp.served < MixRequests
    /\ \E form \in MixForms :
          inp' = [inp EXCEPT !.pc = "strike", !.form = form, !.old = alert_configs]
    /\ last_op' = Op("activate_alerts", "all")
    /\ UNCHANGED <<now, listing, eth, btc, alert_configs, new_system_active,
                   DELTA_THRESHOLD, sink, twin, threads, out>>

\* alert_configs['btc_call'].strike = btc_call_strike
Mix_strike ==
    /\ inp.pc = "strike"
    /\ alert_configs' = [alert_configs EXCEPT
                            !["btc_call"].strike = inp.form.rules["btc_call"].strike]
    /\ inp' = [inp EXCEPT !.pc = "premium"]
    /\ last_op' = Op("activate_alerts", "all")
    /\ UNCHANGED <<now, listing, eth, btc, new_system_active,
                   DELTA_THRESHOLD, sink, twin, threads, out>>

\* alert_configs['btc_call'].premium = btc_call_premium
Mix_premium ==
    /\ inp.pc = "premium"
    /\ alert_configs' = [alert_configs EXCEPT
                            !["btc_call"].premium = inp.form.rules["btc_call"].premium]
    /\ inp' = [inp EXCEPT !.pc = "monitor"]
    /\ last_op' = Op("activate_alerts", "all")
    /\ UNCHANGED <<now, listing, eth, btc, new_system_active,
                   DELTA_THRESHOLD, sink, twin, threads, out>>

\* the rest of the handler: is_monitoring, last_updated and active_expiry
\* of btc_call, the other three rules, the flag and the notifications
\* (which compare with the old_configs copy)
Mix_rest ==
    /\ inp.pc = "monitor"
    /\ SetWorld(activate_alerts([World EXCEPT !.alert_configs = inp.old],
                                inp.form, now))
    /\ inp' = [NoRequest EXCEPT !.served = inp.served + 1]
    /\ last_op' = Op("activate_alerts", "all")
    /\ UNCHANGED <<now, listing, twin, threads, out>>

MixThread ==
    \E i \in DOMAIN threads :
        \/ Poll_start(i) \/ Poll_loop(i)
        \/ Poll_check(i, PollNets) \/ Poll_reset(i)
        \/ Poll_fetch(i, {Hot}, PollNets) \/ Poll_populate(i, {"calls_first"})
        \/ Poll_test(i) \/ Poll_tick(i)

MixNext ==
    \/ PollAdvance \/ PollListing
    \/ Mix_begin \/ Mix_strike \/ Mix_premium \/ Mix_rest
    \/ MixThread

SpecMix == MixInit /\ [][MixNext]_vars

\* the alert keys the btc_call half of check_user_alerts finds for a rule
\* on the chain and the snapshot of the current state
CallKeysOf(rule) ==
    UserAlertKeys("BTC", "call", rule, btc.option_chain_data.calls, btc.options_prices)

\* the btc_call rule as the request being served leaves it
RuleAfterRequest ==
    [strike |-> inp.form.rules["btc_call"].strike,
     premium |-> inp.form.rules["btc_call"].premium,
     is_monitoring |-> inp.form.rules["btc_call"].monitor]

\* C34: a detection tick that runs while an /activate_alerts request is
\* being served finds, for a rule, only alert keys that the rule's triple
\* (strike, premium, enabled) before the request or its triple after the
\* request produces on the same chain and snapshot.
C34_TickSeesWholeRule ==
    [][(/\ \E i \in DOMAIN threads :
              threads[i].pc = "tick" /\ threads'[i].pc = "sleep"
        /\ inp.pc # "idle" /\ new_system_active)
          => CallKeysOf(alert_configs["btc_call"])
                \subseteq CallKeysOf(inp.old["btc_call"]) \cup CallKeysOf(RuleAfterRequest)
      ]_vars

(***************************************************************************)
(* SpecStop: the poll threads under /stop_btc and /start_btc alone, the    *)
(* directory and the alert rules left as they are at the start.            *)
(***************************************************************************)
StopThread ==
    \E i \in DOMAIN threads :
        \/ Poll_start(i) \/ Poll_loop(i)
        \/ Poll_check(i, PollNets)
        \/ Poll_fetch(i, {Hot}, PollNets) \/ Poll_populate(i, {"calls_first"})
        \/ Poll_test(i) \/ Poll_tick(i)

StopNext == PollAdvance \/ stop_btc \/ start_btc \/ StopThread

SpecStop == PollInit /\ [][StopNext]_vars

\* the positions of a thread that is not inside a loop iteration
OutsideCycle == {"top", "sleep", "exited", "none"}

LiveLoops == {i \in DOMAIN threads : threads[i].pc \notin OutsideCycle \cup {"start"}}

\* C36: after any sequence of /start_btc and /stop_btc requests interleaved
\* with the poll loop, at most one thread is executing the BTC monitoring
\* loop: no two threads are inside a loop iteration at once.
C36_SingleMonitoringLoop == Cardinality(LiveLoops) <= 1

(***************************************************************************)
(* SpecCount: the poll threads under /stop_btc and /start_btc with         *)
(* "self.fetch_count += 1" as the load and the store it is: the threads    *)
(* share btc_bot without a lock, so another thread may run between the     *)
(* two.  A thread keeps the value it loaded in its local "loaded".         *)
(***************************************************************************)
\* "while self.running:", reached from the start of the thread or when
\* sleep(BTC_FETCH_INTERVAL) returns
Count_top(i) ==
    /\ \/ threads[i].pc = "top"
       \/ threads[i].pc = "sleep" /\ now >= threads[i].wake
    /\ btc.running => btc.fetch_count < PollFetches
    /\ SetThread(i, [threads[i] EXCEPT !.pc = IF btc.running THEN "load" ELSE "exited",
                                       !.wake = 0])
    /\ last_op' = Op("start_monitoring", "BTC")
    /\ UNCHANGED <<now, listing, eth, btc, alert_configs, new_system_active,
                   DELTA_THRESHOLD, sink, twin, inp, out>>

\* the read of self.fetch_count in "self.fetch_count += 1"
Count_load(i) ==
    /\ threads[i].pc = "load"
    /\ SetThread(i, [pc |-> "store", loaded |-> btc.fetch_count] @@ threads[i])
    /\ last_op' = Op("start_monitoring", "BTC")
    /\ UNCHANGED <<now, listing, eth, btc, alert_configs, new_system_active,
                   DELTA_THRESHOLD, sink, twin, inp, out>>

\* the write of self.fetch_count in "self.fetch_count += 1"
Count_store(i) ==
    /\ threads[i].pc = "store"
    /\ btc' = [btc EXCEPT !.fetch_count = threads[i].loaded + 1]
    /\ SetThread(i, [threads[i] EXCEPT !.pc = "check"])
    /\ last_op' = Op("start_monitoring", "BTC")
    /\ UNCHANGED <<now, listing, eth, alert_configs, new_system_active,
                   DELTA_THRESHOLD, sink, twin, inp, out>>

CountThread ==
    \E i \in DOMAIN threads :
        \/ Poll_start(i) \/ Count_top(i) \/ Count_load(i) \/ Count_store(i)
        \/ Poll_check(i, PollNets)
        \/ Poll_fetch(i, {Hot}, PollNets) \/ Poll_populate(i, {"calls_first"})
        \/ Poll_test(i) \/ Poll_tick(i)

CountNext == PollAdvance \/ stop_btc \/ start_btc \/ CountThread

SpecCount == PollInit /\ [][CountNext]_vars

\* C35: fetch_count, message_count, alert_count and expiry_rollover_count
\* never decrease in any step.
C35_CountersNeverDecrease ==
    [][/\ btc'.fetch_count >= btc.fetch_count
       /\ eth'.message_count >= eth.message_count
       /\ \A asset \in Assets :
             /\ BotAfter(asset).alert_count >= Bot(asset).alert_count
             /\ BotAfter(asset).expiry_rollover_count >= Bot(asset).expiry_rollover_count
      ]_vars

(***************************************************************************)
(* SpecConfig: detection passes of either bot between requests that change *)
(* the arbitrage threshold and the alert rules.                            *)
(***************************************************************************)
\* both call rules at strike 100 with a premium no quote reaches
HighForm ==
    [rules |-> [id \in ConfigIds |->
                   IF id \in {"eth_call", "btc_call"} THEN FormRule(100, 500, TRUE)
                   ELSE NoRule],
     bad |-> None]

ConfigForms == {AlertForm, HighForm}

\* a threshold above the call difference of Hot, a zero and a field that
\* does not parse
ThresholdForms ==
    {[threshold |-> 400, bad |-> FALSE], [threshold |-> 0, bad |-> FALSE],
     [threshold |-> 0, bad |-> TRUE]}

ConfigAdvance == Advance({60})

ConfigActivate == Activate(ConfigForms)

ConfigThreshold == UpdateThreshold(ThresholdForms)

ConfigMessages == L1Messages({Sym("C", "ETH", 105, 301224)}, {Hot})

ConfigMessage == ETH_on_message(ConfigMessages, {"old_last"})

ConfigCycle == BTC_cycle({Hot})

ConfigNext ==
    \/ ConfigAdvance \/ ConfigActivate \/ ConfigThreshold
    \/ ETH_on_open \/ ConfigMessage
    \/ ConfigCycle

SpecConfig == SysInit /\ [][ConfigNext]_vars

\* the alert keys the detection pass of asset at the current clock value
\* handed to can_alert
TickKeys(asset) ==
    {d.key : d \in {e \in out.detections : e.asset = asset /\ e.at = now}}

\* what the two detectors of asset find in the bot's snapshot under the
\* threshold and the rules as they are now; the BTC arbitrage detector is
\* handed the batch of the poll, which is empty when the poll fetched nothing
CurrentKeys(asset, fetched) ==
    IF asset = "ETH"
    THEN check_arbitrage_opportunities(eth, DELTA_THRESHOLD["ETH"], "old_last")
         \cup check_user_alerts("ETH", new_system_active, alert_configs,
                                eth.option_chain_data, eth.options_prices)
    ELSE check_arbitrage(IF fetched
                         THEN group_by_strike([s \in btc.active_symbols |->
                                                  btc.options_prices[s]])
                         ELSE EmptyMap,
                         DELTA_THRESHOLD["BTC"])
         \cup check_user_alerts("BTC", new_system_active, alert_configs,
                                btc.option_chain_data, btc.options_prices)

\* the values of a rule a form sets
RuleValues(config) ==
    [strike |-> config.strike, premium |-> config.premium,
     monitor |-> config.is_monitoring]

\* C16: a threshold request that goes through leaves the requested
\* threshold in place and a rule request leaves the rules of its form and
\* the flag they imply; nothing else changes them; and every detection
\* pass hands to can_alert exactly the keys the detectors find in what it
\* reads under the threshold and the rules in place when it runs.
C16_NextTickUsesNewValues ==
    [][/\ \A asset \in Assets :
             BotAfter(asset).last_arbitrage_check # Bot(asset).last_arbitrage_check
                => \E fetched \in BOOLEAN : TickKeys(asset)' = CurrentKeys(asset, fetched)'
       /\ IF last_op'.op = "update_threshold"
          THEN (~last_op'.request.bad /\ last_op'.request.threshold > 0)
                  => DELTA_THRESHOLD'[last_op'.asset] = last_op'.request.threshold
          ELSE DELTA_THRESHOLD' = DELTA_THRESHOLD
       /\ IF last_op'.op = "activate_alerts"
          THEN /\ \E form \in ConfigForms :
                     \A id \in ConfigIds : RuleValues(alert_configs'[id]) = form.rules[id]
               /\ new_system_active' = AnyMonitoring(alert_configs')
          ELSE /\ \A id \in ConfigIds :
                     RuleValues(alert_configs'[id]) = RuleValues(alert_configs[id])
               /\ new_system_active' = new_system_active
      ]_vars

\* a BTC detection pass that ran after the threshold was raised above the
\* call difference and the call rule's premium above the bid: it finds
\* nothing, where the threshold and rules of an earlier pass found both
C16_Witness ==
    /\ last_op.op = "monitoring_cycle" /\ btc.last_arbitrage_check = now
    /\ DELTA_THRESHOLD["BTC"] = 400 /\ alert_configs["btc_call"].premium = 500
    /\ TickKeys("BTC") = {}
    /\ check_arbitrage(group_by_strike([s \in btc.active_symbols |->
                                           btc.options_prices[s]]),
                       DELTA_THRESHOLD_BTC) # {}
    /\ \E d \in out.detections : d.asset = "BTC" /\ d.at < now /\ d.key[1] = "BTC_CALL"
    /\ \E d \in out.detections : d.asset = "BTC" /\ d.at < now /\ d.key[1] = "BTC_CALL_ALERT"

====
